---------------------------- MODULE Spec2Model ----------------------------
(***************************************************************************)
(* A model of the goc front end: the tokenizer (internal/tokenize), the    *)
(* post-processing of token vectors (FinishTokenize) and the macro         *)
(* preprocessor (preprocess).  Bytes are one-character strings; a spelling *)
(* (identifier name, string value, number text) is a sequence of bytes.    *)
(***************************************************************************)
EXTENDS Integers, Sequences, FiniteSets, TLC

VARIABLES
    \* ---- tokenizer (tokenize.go) ----
    src,        \* the spliced source bytes handed to tokenizer.scan
    pos,        \* number of bytes of src consumed so far (the bufio cursor)
    ppstate,    \* tokenizer.ppstate
    isSpace,    \* tokenizer.isSpace
    wasSpace,   \* tokenizer.wasSpace
    ts,         \* the token vector scan is building / has returned
    spans,      \* history: for each token of ts, the bytes [from, to] it was lexed from
    scanState,  \* "scanning", "done" (scan returned ts), or an error message
    \* ---- FinishTokenize (tokenize.go) ----
    heap,       \* the *token.Token objects: address -> token
    vec,        \* the vector handed to FinishTokenize (addresses)
    vec0,       \* history: the tokens of vec before any call
    out1,       \* the vector the first call returned
    vals1,      \* history: the tokens of out1 when the first call returned
    out2,       \* the vector the second call returned
    finState,   \* "start", "once", "twiceResult" or "twiceInput"
    \* ---- Preprocess (package preprocess) ----
    tokens,     \* the map from paths to token vectors handed to Preprocess
    stack,      \* the preprocessors, from the one of Preprocess to the innermost include
    visited,    \* the set of paths all of them share
    emitted,    \* the tokens Preprocess has collected
    ppStatus,   \* "running", "eof" (Preprocess returned its tokens) or "error"
    ppErr,      \* the error Preprocess returned
    \* ---- ReadPPNumber (ppnumber.go) ----
    numSrc,     \* the bytes of the Source handed to ReadPPNumber
    numPos,     \* number of bytes of numSrc consumed (the cursor of the Source)
    numVal,     \* the string ReadPPNumber returned
    numState    \* "ready", "ok" (a string returned) or "error"

tokVars == <<src, pos, ppstate, isSpace, wasSpace, ts, spans, scanState>>

finVars == <<heap, vec, vec0, out1, vals1, out2, finState>>

ppVars == <<tokens, stack, visited, emitted, ppStatus, ppErr>>

numVars == <<numSrc, numPos, numVal, numState>>

vars == <<tokVars, finVars, ppVars, numVars>>

\* What a step of one component leaves alone: the other components.
OnlyScan == UNCHANGED <<finVars, ppVars, numVars>>
OnlyFinish == UNCHANGED <<tokVars, ppVars, numVars>>
OnlyPreprocess == UNCHANGED <<tokVars, finVars, numVars>>
OnlyPPNumber == UNCHANGED <<tokVars, finVars, ppVars>>

-----------------------------------------------------------------------------
(* Bytes *)

LF == "\n"
VT == "VT"
DQ == "\""
SQ == "'"

Digits == {"0", "1", "2", "3", "4", "5", "6", "7", "8", "9"}

Lower ==
    {"a", "b", "c", "d", "e", "f", "g", "h", "i", "j", "k", "l", "m",
     "n", "o", "p", "q", "r", "s", "t", "u", "v", "w", "x", "y", "z"}

Upper ==
    {"A", "B", "C", "D", "E", "F", "G", "H", "I", "J", "K", "L", "M",
     "N", "O", "P", "Q", "R", "S", "T", "U", "V", "W", "X", "Y", "Z"}

isDigit(c) == c \in Digits

isNondigit(c) == c \in Upper \/ c \in Lower \/ c = "_"

\* The bytes the tokenizer's first switch classifies as space.
WhiteBytes == {" ", "\t", VT, "\f", "\r", LF}

Min(a, b) == IF a <= b THEN a ELSE b

\* bufio.Reader.Peek(n) at cursor p: up to n bytes, fewer at end of input.
Peek(bytes, p, n) == SubSeq(bytes, p + 1, Min(p + n, Len(bytes)))

-----------------------------------------------------------------------------
(* Tokens of package token *)

NoToken == [Type |-> "nil", StringValue |-> <<>>, Name |-> <<>>,
            NumberValue |-> <<>>, Adjacent |-> FALSE]

Tok(type) == [NoToken EXCEPT !.Type = type]

NewlineTok == Tok(LF)

\* token.KeywordToType: the token type of a keyword spelling, "none" otherwise.
KeywordToType(name) ==
    CASE name = <<"i", "n", "t">> -> "Int"
      [] name = <<"i", "f">> -> "If"
      [] name = <<"d", "o">> -> "Do"
      [] OTHER -> "none"

-----------------------------------------------------------------------------
(* Literal sub-lexers.  Each returns [ok, n, val]: whether it succeeded,    *)
(* how many bytes it consumed, and the spelling it read.                    *)

RECURSIVE PPNumberLoop(_, _)
\* The loop of ReadPPNumber with i bytes consumed: returns the total consumed.
PPNumberLoop(bytes, i) ==
    IF i >= Len(bytes) THEN i
    ELSE LET b == bytes[i + 1] IN
         IF ~isDigit(b) /\ b # "." /\ ~isNondigit(b) THEN i
         ELSE IF b \notin {"e", "E", "p", "P"} THEN PPNumberLoop(bytes, i + 1)
         ELSE IF i + 1 >= Len(bytes) THEN i + 1
         ELSE IF bytes[i + 2] \in {"+", "-"} THEN PPNumberLoop(bytes, i + 2)
         ELSE PPNumberLoop(bytes, i + 1)

\* ReadPPNumber on the bytes from cursor 0.
ReadPPNumber(bytes) ==
    IF Len(bytes) = 0 THEN [ok |-> FALSE, n |-> 0, val |-> <<>>]
    ELSE IF ~isDigit(bytes[1]) /\ bytes[1] # "."
         THEN [ok |-> FALSE, n |-> 1, val |-> <<>>]
    ELSE LET n == PPNumberLoop(bytes, 1)
         IN [ok |-> TRUE, n |-> n, val |-> SubSeq(bytes, 1, n)]

\* The numeric-value resolver behind lex.ReadNumber: the pp-number spellings
\* it accepts (decimal digits with at most one dot).
ValidNumber(text) ==
    /\ \A i \in 1..Len(text) : isDigit(text[i]) \/ text[i] = "."
    /\ Cardinality({i \in 1..Len(text) : text[i] = "."}) <= 1
    /\ \E i \in 1..Len(text) : isDigit(text[i])

\* lex.ReadNumber: a pp-number, then its value.
ReadNumber(bytes) ==
    LET r == ReadPPNumber(bytes)
    IN IF r.ok /\ ValidNumber(r.val) THEN r ELSE [r EXCEPT !.ok = FALSE]

RECURSIVE IdentLoop(_, _)
IdentLoop(bytes, i) ==
    IF i >= Len(bytes) THEN i
    ELSE IF isNondigit(bytes[i + 1]) \/ isDigit(bytes[i + 1])
         THEN IdentLoop(bytes, i + 1)
    ELSE i

\* lex.ReadIdentifier: a nondigit, then any run of nondigits and digits.
ReadIdentifier(bytes) ==
    LET n == IdentLoop(bytes, 1)
    IN [ok |-> TRUE, n |-> n, val |-> SubSeq(bytes, 1, n)]

\* The first index i >= from with bytes[i] in stop, or 0.
RECURSIVE FindByte(_, _, _)
FindByte(bytes, from, stop) ==
    IF from > Len(bytes) THEN 0
    ELSE IF bytes[from] \in stop THEN from
    ELSE FindByte(bytes, from + 1, stop)

\* A literal delimited by bytes[1] ... close on one line, taken verbatim.
Delimited(bytes, close) ==
    LET e == FindByte(bytes, 2, {close, LF})
    IN IF e = 0 \/ bytes[e] # close
       THEN [ok |-> FALSE, n |-> 0, val |-> <<>>]
       ELSE [ok |-> TRUE, n |-> e, val |-> SubSeq(bytes, 2, e - 1)]

\* lex.ReadHeaderName: <...> or "...", no escape processing.
ReadHeaderName(bytes) ==
    Delimited(bytes, IF bytes[1] = "<" THEN ">" ELSE DQ)

\* lex.ReadString on sources without backslash escapes.
ReadString(bytes) == Delimited(bytes, DQ)

\* lex.ReadChar on sources without backslash escapes: exactly one byte.
ReadChar(bytes) ==
    LET r == Delimited(bytes, SQ)
    IN IF r.ok /\ Len(r.val) = 1 THEN r ELSE [r EXCEPT !.ok = FALSE]

-----------------------------------------------------------------------------
(* tokenizer.nextImpl *)

\* The multi-byte punctuator that the switch on bs[0] recognises at the front
\* of the peeked bytes bs (at most 3), as [n, type]; n = 0 when there is none.
MultiPunct(bs) ==
    LET b1 == bs[1]
        b2 == IF Len(bs) >= 2 THEN bs[2] ELSE "none"
        b3 == IF Len(bs) >= 3 THEN bs[3] ELSE "none"
    IN CASE b1 = "+" /\ b2 = "+" -> [n |-> 2, type |-> "Inc"]
         [] b1 = "+" /\ b2 = "=" -> [n |-> 2, type |-> "AddEq"]
         [] b1 = "-" /\ b2 = "-" -> [n |-> 2, type |-> "Dec"]
         [] b1 = "-" /\ b2 = "=" -> [n |-> 2, type |-> "SubEq"]
         [] b1 = "-" /\ b2 = ">" -> [n |-> 2, type |-> "Arrow"]
         [] b1 = "*" /\ b2 = "=" -> [n |-> 2, type |-> "MulEq"]
         [] b1 = "/" /\ b2 = "=" -> [n |-> 2, type |-> "DivEq"]
         [] b1 = "%" /\ b2 = "=" -> [n |-> 2, type |-> "ModEq"]
         [] b1 = "=" /\ b2 = "=" -> [n |-> 2, type |-> "Eq"]
         [] b1 = "<" /\ b2 = "<" /\ b3 = "=" -> [n |-> 3, type |-> "ShlEq"]
         [] b1 = "<" /\ b2 = "<" /\ b3 # "=" -> [n |-> 2, type |-> "Shl"]
         [] b1 = ">" /\ b2 = ">" /\ b3 = "=" -> [n |-> 3, type |-> "ShrEq"]
         [] b1 = ">" /\ b2 = ">" /\ b3 # "=" -> [n |-> 2, type |-> "Shr"]
         [] b1 = "&" /\ b2 = "&" -> [n |-> 2, type |-> "AndAnd"]
         [] b1 = "&" /\ b2 = "=" -> [n |-> 2, type |-> "AndEq"]
         [] b1 = "|" /\ b2 = "|" -> [n |-> 2, type |-> "OrOr"]
         [] b1 = "|" /\ b2 = "=" -> [n |-> 2, type |-> "OrEq"]
         [] b1 = "!" /\ b2 = "=" -> [n |-> 2, type |-> "Ne"]
         [] b1 = "^" /\ b2 = "=" -> [n |-> 2, type |-> "XorEq"]
         [] b1 = "." /\ b2 = "." /\ b3 = "." -> [n |-> 3, type |-> "DotDotDot"]
         [] b1 = "#" /\ b2 = "#" -> [n |-> 2, type |-> "HashHash"]
         [] OTHER -> [n |-> 0, type |-> "none"]

\* The bytes that fall through the switch to the single-byte token at its end.
SingleBytes ==
    {"+", "-", "*", "/", "%", "=", "<", ">", "&", "|", "!", "^", ".", "#",
     ";", "(", ")", ",", "{", "}", "[", "]", "?", ":", "~"}

\* The line comment loop, entered after Discard(2) at cursor p: ReadByte until
\* a '\n' has been read or the input ends.  Returns the cursor afterwards.
LineCommentEnd(bytes, p) ==
    LET e == FindByte(bytes, p + 1, {LF})
    IN IF e = 0 THEN Len(bytes) ELSE e

\* The loop with the '*' of the opening "/*" taken for that of a "*/".
RECURSIVE BlockCommentEnd_Overlap(_, _)
BlockCommentEnd_Overlap(bytes, p) ==
    LET bs == Peek(bytes, p - 1, 2)
    IN IF Len(bs) <= 1 THEN -1
       ELSE IF bs[1] = "*" /\ bs[2] = "/" THEN p + 1
       ELSE BlockCommentEnd_Overlap(bytes, p + 1)

\* The block comment loop, entered after Discard(2) at cursor p: the cursor
\* after the first "*/" found by Peek(2), or -1 when Peek(2) runs short.
RECURSIVE BlockCommentEnd(_, _)
BlockCommentEnd(bytes, p) ==
    LET bs == Peek(bytes, p, 2)
    IN IF Len(bs) <= 1 THEN -1
       ELSE IF bs[1] = "*" /\ bs[2] = "/" THEN p + 2
       ELSE BlockCommentEnd(bytes, p + 1)

\* The outcome of one nextImpl call: a token (or NoToken), an error ("" for
\* nil, "EOF" for io.EOF) and the new cursor.
Out(tk, err, p) == [tk |-> tk, err |-> err, pos |-> p]

ErrInvalidToken == "tokenizer: invalid token"
ErrUnclosedComment == "tokenizer: unclosed block comment"
ErrLiteral == "lex: invalid literal"

\* The second switch of nextImpl on the bytes rest = src from cursor p on
\* (non-empty), with header-name context hdr.
Dispatch(rest, p, hdr) ==
    LET bs == SubSeq(rest, 1, Min(3, Len(rest)))
        b  == bs[1]
        mp == MultiPunct(bs)
        lit(r, type, field) ==
            IF ~r.ok THEN Out(NoToken, ErrLiteral, p)
            ELSE Out([Tok(type) EXCEPT ![field] = r.val], "", p + r.n)
    IN CASE b = LF -> Out(Tok(LF), "", p + 1)
         [] b \in {" ", "\t", VT, "\f", "\r"} -> Out(NoToken, "", p + 1)
         [] b = "/" /\ Len(bs) >= 2 /\ bs[2] = "/" ->
                Out(NoToken, "", LineCommentEnd(rest, 2) + p)
         [] b = "/" /\ Len(bs) >= 2 /\ bs[2] = "*" ->
                LET e == BlockCommentEnd(rest, 2)
                IN IF e = -1 THEN Out(NoToken, ErrUnclosedComment, p)
                   ELSE Out(NoToken, "", e + p)
         [] b \in {"<", DQ} /\ hdr -> lit(ReadHeaderName(rest), "HeaderName", "StringValue")
         [] b = SQ -> lit(ReadChar(rest), "NumberLiteral", "NumberValue")
         [] b = DQ /\ ~hdr -> lit(ReadString(rest), "StringLiteral", "StringValue")
         [] b = "." /\ Len(bs) >= 2 /\ isDigit(bs[2]) ->
                lit(ReadNumber(rest), "NumberLiteral", "NumberValue")
         [] isDigit(b) -> lit(ReadNumber(rest), "NumberLiteral", "NumberValue")
         [] isNondigit(b) ->
                LET r == ReadIdentifier(rest)
                IN IF KeywordToType(r.val) # "none"
                   THEN Out(Tok(KeywordToType(r.val)), "", p + r.n)
                   ELSE Out([Tok("Ident") EXCEPT !.Name = r.val], "", p + r.n)
         [] OTHER ->
                IF mp.n > 0 THEN Out(Tok(mp.type), "", p + mp.n)
                ELSE IF b \in SingleBytes THEN Out(Tok(b), "", p + 1)
                ELSE Out(NoToken, ErrInvalidToken, p)

\* tokenizer.nextImpl on state s = [pos, isSpace, wasSpace, ppstate]: the
\* outcome and the tokenizer's fields afterwards.
nextImpl(bytes, s) ==
    IF s.pos >= Len(bytes) THEN [tk |-> NoToken, err |-> "EOF", s |-> s]
    ELSE LET b == bytes[s.pos + 1]
             o == Dispatch(SubSeq(bytes, s.pos + 1, Len(bytes)), s.pos, s.ppstate = 2)
         IN [tk |-> o.tk, err |-> o.err,
             s |-> [pos |-> o.pos,
                    ppstate |-> s.ppstate,
                    wasSpace |-> s.isSpace,
                    isSpace |-> (b \in WhiteBytes)]]

-----------------------------------------------------------------------------
(* tokenizer.next and tokenizer.scan *)

IncludeName == <<"i", "n", "c", "l", "u", "d", "e">>

\* The switch with the test of the state left out of the case '#'.
NextPPState_HashAnywhere(st, tk) ==
    CASE tk.Type = LF -> 0
      [] tk.Type = "#" -> 1
      [] tk.Type = "Ident" -> IF st = 1 /\ tk.Name = IncludeName THEN 2 ELSE -1
      [] OTHER -> -1

\* The switch on tk.Type at the end of tokenizer.next.
NextPPState(st, tk) ==
    CASE tk.Type = LF -> 0
      [] tk.Type = "#" -> IF st = 0 THEN 1 ELSE -1
      [] tk.Type = "Ident" -> IF st = 1 /\ tk.Name = IncludeName THEN 2 ELSE -1
      [] OTHER -> -1

\* Adjacent as tokenizer.next sets it from the tokenizer's fields.
AdjacentFlag(s) == ~s.wasSpace

\* The tail of tokenizer.next for the outcome r of the nextImpl call that
\* yielded a token: Adjacent is set and ppstate moves.
next(r) ==
    [r EXCEPT !.tk.Adjacent = AdjacentFlag(r.s),
              !.s.ppstate = NextPPState(r.s.ppstate, r.tk)]

\* The tokenizer's fields as one record.
Tz == [pos |-> pos, ppstate |-> ppstate, isSpace |-> isSpace, wasSpace |-> wasSpace]

SetTz(s) ==
    /\ pos' = s.pos
    /\ ppstate' = s.ppstate
    /\ isSpace' = s.isSpace
    /\ wasSpace' = s.wasSpace

\* AddNewline with the test for the empty vector left out.
AddNewline_NoEmptyCheck(v) ==
    IF Len(v) > 0 /\ v[Len(v)].Type # LF THEN Append(v, NewlineTok) ELSE v

\* The vector scan returns once its loop has ended: a '\n' token is added
\* when the vector is empty or does not end in one.
AddNewline(v) ==
    IF Len(v) = 0 \/ v[Len(v)].Type # LF THEN Append(v, NewlineTok) ELSE v

\* An iteration of the loop of tokenizer.next in which nextImpl consumes a
\* whitespace byte or a comment and yields nothing.
ScanSkip ==
    /\ OnlyScan
    /\ scanState = "scanning"
    /\ \E r \in {nextImpl(src, Tz)} :
          /\ r.tk = NoToken /\ r.err = ""
          /\ SetTz(r.s)
    /\ UNCHANGED <<src, ts, spans, scanState>>

\* The iteration in which nextImpl yields a token: tokenizer.next returns it
\* and scan appends it.
ScanToken ==
    /\ OnlyScan
    /\ scanState = "scanning"
    /\ \E r \in {nextImpl(src, Tz)} :
          /\ r.tk # NoToken /\ r.err = ""
          /\ \E n \in {next(r)} :
                /\ SetTz(n.s)
                /\ ts' = Append(ts, n.tk)
                /\ spans' = Append(spans, [from |-> pos + 1, to |-> n.s.pos])
    /\ UNCHANGED <<src, scanState>>

\* The iteration in which nextImpl meets io.EOF, and the rest of scan.
ScanEOF ==
    /\ OnlyScan
    /\ scanState = "scanning"
    /\ \E r \in {nextImpl(src, Tz)} :
          /\ r.err = "EOF"
          /\ SetTz(r.s)
    /\ \E v \in {AddNewline(ts)} :
          /\ ts' = v
          /\ spans' = IF Len(v) > Len(ts)
                      THEN Append(spans, [from |-> Len(src) + 1, to |-> Len(src)])
                      ELSE spans
    /\ scanState' = "done"
    /\ UNCHANGED src

\* The iteration in which nextImpl fails: scan returns no vector.
ScanError ==
    /\ OnlyScan
    /\ scanState = "scanning"
    /\ \E r \in {nextImpl(src, Tz)} :
          /\ r.err \notin {"", "EOF"}
          /\ SetTz(r.s)
          /\ scanState' = r.err
    /\ ts' = <<>>
    /\ spans' = <<>>
    /\ UNCHANGED src

-----------------------------------------------------------------------------
(* Inputs of the tokenizer *)

\* The number of fragments a source is made of.
MaxFrags == 3

Fragments ==
    {<<" ">>, <<LF>>, <<"a">>, <<"(">>, <<"#">>, IncludeName, <<"<", "a", ">">>,
     <<DQ, "a", DQ>>, <<"/", "*">>, <<"*", "/">>, <<"/", "/">>, <<"/", "/", LF>>}

RECURSIVE Flatten(_)
\* The concatenation of a sequence of byte sequences.
Flatten(fs) == IF fs = <<>> THEN <<>> ELSE Head(fs) \o Flatten(Tail(fs))

\* The concatenations of at most n fragments.
FragmentInputs(n) ==
    {Flatten(fs) : fs \in [1..n -> Fragments \cup {<<>>}]}

\* The multi-character punctuators of the token kinds, with their bytes.
Punctuators ==
    {[bytes |-> <<"+", "+">>, type |-> "Inc"],
     [bytes |-> <<"-", "-">>, type |-> "Dec"],
     [bytes |-> <<"-", ">">>, type |-> "Arrow"],
     [bytes |-> <<"+", "=">>, type |-> "AddEq"],
     [bytes |-> <<"-", "=">>, type |-> "SubEq"],
     [bytes |-> <<"*", "=">>, type |-> "MulEq"],
     [bytes |-> <<"/", "=">>, type |-> "DivEq"],
     [bytes |-> <<"%", "=">>, type |-> "ModEq"],
     [bytes |-> <<"=", "=">>, type |-> "Eq"],
     [bytes |-> <<"!", "=">>, type |-> "Ne"],
     [bytes |-> <<"<", "=">>, type |-> "Le"],
     [bytes |-> <<">", "=">>, type |-> "Ge"],
     [bytes |-> <<"<", "<">>, type |-> "Shl"],
     [bytes |-> <<">", ">">>, type |-> "Shr"],
     [bytes |-> <<"<", "<", "=">>, type |-> "ShlEq"],
     [bytes |-> <<">", ">", "=">>, type |-> "ShrEq"],
     [bytes |-> <<"&", "&">>, type |-> "AndAnd"],
     [bytes |-> <<"|", "|">>, type |-> "OrOr"],
     [bytes |-> <<"&", "=">>, type |-> "AndEq"],
     [bytes |-> <<"|", "=">>, type |-> "OrEq"],
     [bytes |-> <<"^", "=">>, type |-> "XorEq"],
     [bytes |-> <<".", ".", ".">>, type |-> "DotDotDot"],
     [bytes |-> <<"#", "#">>, type |-> "HashHash"]}

\* bytes with one space put after its first k bytes.
SplitAt(bytes, k) ==
    SubSeq(bytes, 1, k) \o <<" ">> \o SubSeq(bytes, k + 1, Len(bytes))

\* Every punctuator written contiguously and with a space inside, and "..".
PunctInputs ==
    {P.bytes : P \in Punctuators}
    \cup {SplitAt(P.bytes, 1) : P \in Punctuators}
    \cup {SplitAt(P.bytes, Len(P.bytes) - 1) : P \in Punctuators}
    \cup {<<".", ".">>}

ScanInputs(n) == FragmentInputs(n) \cup PunctInputs

ScanInit ==
    /\ src \in ScanInputs(MaxFrags)
    /\ pos = 0
    /\ ppstate = 0
    /\ isSpace = FALSE
    /\ wasSpace = FALSE
    /\ ts = <<>>
    /\ spans = <<>>
    /\ scanState = "scanning"

ScanNext == ScanSkip \/ ScanToken \/ ScanEOF \/ ScanError

-----------------------------------------------------------------------------
(* FinishTokenize: stripNewLineTokens, then joinStringLiterals.  A vector   *)
(* is a sequence of addresses into heap, as []*token.Token is.              *)

\* stripNewLineTokens that drops only a leading '\n'.
stripNewLineTokens_LeadingOnly(h, v) ==
    IF v # <<>> /\ h[Head(v)].Type = LF THEN Tail(v) ELSE v

\* stripNewLineTokens: the addresses of v whose token is not '\n'.
RECURSIVE stripNewLineTokens(_, _)
stripNewLineTokens(h, v) ==
    IF v = <<>> THEN <<>>
    ELSE IF h[Head(v)].Type = LF THEN stripNewLineTokens(h, Tail(v))
    ELSE <<Head(v)>> \o stripNewLineTokens(h, Tail(v))

\* JoinStep without the continue after the concatenation.
JoinStep_NoContinue(h, r, t) ==
    IF /\ Len(r) > 0
       /\ h[r[Len(r)]].Type = "StringLiteral"
       /\ h[t].Type = "StringLiteral"
    THEN [h |-> [h EXCEPT ![r[Len(r)]].StringValue = @ \o h[t].StringValue],
          r |-> Append(r, t)]
    ELSE [h |-> h, r |-> Append(r, t)]

\* One iteration of joinStringLiterals' loop on token address t, with the
\* heap h and the result r built so far.
JoinStep(h, r, t) ==
    IF /\ Len(r) > 0
       /\ h[r[Len(r)]].Type = "StringLiteral"
       /\ h[t].Type = "StringLiteral"
    THEN [h |-> [h EXCEPT ![r[Len(r)]].StringValue = @ \o h[t].StringValue],
          r |-> r]
    ELSE [h |-> h, r |-> Append(r, t)]

\* joinStringLiterals: the loop over v from the state st = [h, r].
RECURSIVE joinLoop(_, _)
joinLoop(st, v) ==
    IF v = <<>> THEN st
    ELSE joinLoop(JoinStep(st.h, st.r, Head(v)), Tail(v))

joinStringLiterals(h, v) == joinLoop([h |-> h, r |-> <<>>], v)

\* FinishTokenize(v) on heap h: the heap afterwards and the vector returned.
FinishTokenize(h, v) == joinStringLiterals(h, stripNewLineTokens(h, v))

\* The tokens a vector of addresses points to.
Deref(h, v) == [i \in 1..Len(v) |-> h[v[i]]]

\* The length of the vectors handed to FinishTokenize.
MaxVec == 4

FinTokens ==
    {NewlineTok, Tok("+"),
     [Tok("Ident") EXCEPT !.Name = <<"a">>],
     [Tok("StringLiteral") EXCEPT !.StringValue = <<"a">>],
     [Tok("StringLiteral") EXCEPT !.StringValue = <<"b">>],
     [Tok("StringLiteral") EXCEPT !.StringValue = <<>>]}

\* The vectors of at most n tokens of FinTokens.
FinInputs(n) ==
    UNION {[1..k -> FinTokens] : k \in 0..n}

\* A vector as the tokenizer builds it: every element a token of its own.
FinInit ==
    /\ vec0 \in FinInputs(MaxVec)
    /\ heap = vec0
    /\ vec = [i \in 1..Len(vec0) |-> i]
    /\ out1 = <<>>
    /\ vals1 = <<>>
    /\ out2 = <<>>
    /\ finState = "start"

\* The first call: FinishTokenize(vec).
FinishFirst ==
    /\ OnlyFinish
    /\ finState = "start"
    /\ LET f == FinishTokenize(heap, vec)
       IN /\ heap' = f.h
          /\ out1' = f.r
          /\ vals1' = Deref(f.h, f.r)
    /\ finState' = "once"
    /\ UNCHANGED <<vec, vec0, out2>>

\* A second call on the vector the first one returned.
FinishOfResult ==
    /\ OnlyFinish
    /\ finState = "once"
    /\ LET f == FinishTokenize(heap, out1)
       IN /\ heap' = f.h
          /\ out2' = f.r
    /\ finState' = "twiceResult"
    /\ UNCHANGED <<vec, vec0, out1, vals1>>

\* A second call on the same input vector.
FinishOfInput ==
    /\ OnlyFinish
    /\ finState = "once"
    /\ LET f == FinishTokenize(heap, vec)
       IN /\ heap' = f.h
          /\ out2' = f.r
    /\ finState' = "twiceInput"
    /\ UNCHANGED <<vec, vec0, out1, vals1>>

FinNext == FinishFirst \/ FinishOfResult \/ FinishOfInput

-----------------------------------------------------------------------------
(* The preprocessor (package preprocess): toks and token readers *)

\* The element of a one-element set.  Binding a result with
\* Only({e(x) : x \in {r}}) evaluates r once.
Only(S) == CHOOSE x \in S : TRUE

\* A preprocess.Token.  Val is the spelling (identifier name, header path).
PPTok(type, val, adj) ==
    [Type |-> type, Val |-> val, Adjacent |-> adj, ExpandedFrom |-> {},
     ParamIndex |-> 0, ParamHash |-> FALSE]

\* The nil token of a (nil, nil) or (nil, err) return.
NoPPToken == PPTok("nil", "", FALSE)

EOFTok == PPTok("EOF", "", FALSE)

\* ppTokenBufReader.NextPPToken and ppTokenSliceReader.NextPPToken: the token
\* after pos and the new cursor; the EOF token once the vector is exhausted.
NextPPToken(toks, p) ==
    IF p >= Len(toks)
    THEN [tk |-> EOFTok, pos |-> p]
    ELSE [tk |-> toks[p + 1], pos |-> p + 1]

peekPPToken(toks, p) ==
    IF p >= Len(toks) THEN EOFTok ELSE toks[p + 1]

AtLineHead_Always(toks, p) == TRUE

AtLineHead(toks, p) ==
    IF p = 0 THEN TRUE ELSE toks[p].Type = LF

\* nextExpected(src, types...): the next token, which must be of one of the
\* types.
nextExpected(toks, p, types) ==
    Only({
        IF rd.tk.Type \in types
        THEN [tk |-> rd.tk, pos |-> rd.pos, err |-> ""]
        ELSE [tk |-> NoPPToken, pos |-> rd.pos,
              err |-> "preprocess: unexpected " \o rd.tk.Type]
        : rd \in {NextPPToken(toks, p)}})

\* Token.String(): the spelling of a token in a message.
TokenString(t) ==
    IF t.Type \in {"Ident", "StringLiteral", "HeaderName"} THEN t.Val ELSE t.Type

-----------------------------------------------------------------------------
(* Macros and #define *)

\* A macro table: a function from the defined names to the macros.
NoMacros == [n \in {} |-> 0]

SetMacro(ms, name, m) ==
    [n \in DOMAIN ms \cup {name} |-> IF n = name THEN m ELSE ms[n]]

DeleteMacro_All(ms, name) == NoMacros

DeleteMacro(ms, name) == [n \in DOMAIN ms \ {name} |-> ms[n]]

\* The index counted from 1.
ParamIndexOf_OneBased(params, name) ==
    IF \E i \in 1..Len(params) : params[i] = name
    THEN CHOOSE i \in 1..Len(params) :
             /\ params[i] = name
             /\ \A j \in 1..(i - 1) : params[j] # name
    ELSE -1

\* The index of name in params (from 0), or -1.
ParamIndexOf(params, name) ==
    IF \E i \in 1..Len(params) : params[i] = name
    THEN (CHOOSE i \in 1..Len(params) :
              /\ params[i] = name
              /\ \A j \in 1..(i - 1) : params[j] # name) - 1
    ELSE -1

\* The loop that reads `name , name ... )` of a function-like #define.
RECURSIVE paramLoop(_, _, _)
paramLoop(toks, p, params) ==
    Only({
        IF n.err # ""
        THEN [params |-> params, pos |-> n.pos, err |-> n.err]
        ELSE Only({
                IF c.err # ""
                THEN [params |-> params, pos |-> c.pos, err |-> c.err]
                ELSE IF c.tk.Type = ")"
                THEN [params |-> Append(params, n.tk.Val), pos |-> c.pos, err |-> ""]
                ELSE paramLoop(toks, c.pos, Append(params, n.tk.Val))
                : c \in {nextExpected(toks, n.pos, {")", ","})}})
        : n \in {nextExpected(toks, p, {"Ident"})}})

\* The token after the macro name opens a parameter list.
OpensParams_AnyParen(t) == t.Type = "("

OpensParams(t) == t.Type = "(" /\ t.Adjacent

\* The parameter list of a #define, the cursor p being after the macro name:
\* a '(' that is Adjacent opens it, anything else makes the macro object-like.
readParams(toks, p) ==
    Only({
        IF OpensParams(t)
        THEN IF peekPPToken(toks, p + 1).Type = ")"
             THEN [params |-> <<>>, paramsLen |-> 0, pos |-> p + 2, err |-> ""]
             ELSE Only({
                     [params |-> l.params, paramsLen |-> Len(l.params),
                      pos |-> l.pos, err |-> l.err]
                     : l \in {paramLoop(toks, p + 1, <<>>)}})
        ELSE [params |-> <<>>, paramsLen |-> -1, pos |-> p, err |-> ""]
        : t \in {peekPPToken(toks, p)}})

\* The position of the first '\n' token after p, or 0.
NewlineAfter(toks, p) ==
    IF \E k \in (p + 1)..Len(toks) : toks[k].Type = LF
    THEN CHOOSE k \in (p + 1)..Len(toks) :
             /\ toks[k].Type = LF
             /\ \A j \in (p + 1)..(k - 1) : toks[j].Type # LF
    ELSE 0

\* The loop that leaves the '\n' unread.
readLine_KeepsNewline(toks, p) ==
    Only({
        IF k = 0
        THEN [ts |-> <<>>, pos |-> Len(toks), err |-> "preprocess: no end of line"]
        ELSE [ts |-> SubSeq(toks, p + 1, k - 1), pos |-> k - 1, err |-> ""]
        : k \in {NewlineAfter(toks, p)}})

\* The loop that reads the tokens up to the next '\n', which it consumes.
\* (Without a '\n' ahead the loop of the code does not end; the vectors scan
\* builds end in '\n'.)
readLine(toks, p) ==
    Only({
        IF k = 0
        THEN [ts |-> <<>>, pos |-> Len(toks), err |-> "preprocess: no end of line"]
        ELSE [ts |-> SubSeq(toks, p + 1, k - 1), pos |-> k, err |-> ""]
        : k \in {NewlineAfter(toks, p)}})

ErrHashParam == "preprocess: '#' is not followed by a macro parameter"

ParamTok(idx, hash) ==
    [PPTok("Param", "", FALSE) EXCEPT !.ParamIndex = idx, !.ParamHash = hash]

\* One iteration of the loop that rewrites the body of a function-like
\* macro: `# param` and `param` become Param tokens.  Yields the token to
\* append and the index of the next iteration.
replaceStep(body, i, params) ==
    IF body[i].Type = "#"
    THEN IF i + 1 > Len(body)
         THEN [tk |-> NoPPToken, i |-> i, err |-> ErrHashParam]
         ELSE IF body[i + 1].Type # "Ident"
         THEN [tk |-> NoPPToken, i |-> i, err |-> ErrHashParam]
         ELSE Only({
                 IF idx = -1
                 THEN [tk |-> NoPPToken, i |-> i, err |-> ErrHashParam]
                 ELSE [tk |-> ParamTok(idx, TRUE), i |-> i + 2, err |-> ""]
                 : idx \in {ParamIndexOf(params, body[i + 1].Val)}})
    ELSE IF body[i].Type = "Ident"
    THEN Only({
            IF idx # -1
            THEN [tk |-> ParamTok(idx, FALSE), i |-> i + 1, err |-> ""]
            ELSE [tk |-> body[i], i |-> i + 1, err |-> ""]
            : idx \in {ParamIndexOf(params, body[i].Val)}})
    ELSE [tk |-> body[i], i |-> i + 1, err |-> ""]

\* The loop over the body.
RECURSIVE replaceParams(_, _, _, _)
replaceParams(body, i, params, ts2) ==
    IF i > Len(body)
    THEN [ts |-> ts2, err |-> ""]
    ELSE Only({
            IF s.err # ""
            THEN [ts |-> <<>>, err |-> s.err]
            ELSE replaceParams(body, s.i, params, Append(ts2, s.tk))
            : s \in {replaceStep(body, i, params)}})

\* The body taken as it is, whatever the macro.
macroBody_NeverRewritten(l, ps) ==
    IF l.err # "" THEN [ts |-> <<>>, err |-> l.err]
    ELSE [ts |-> l.ts, err |-> ""]

\* The body of the macro: the line l, rewritten when the macro is
\* function-like (paramsLen >= 0).
macroBody(l, ps) ==
    IF l.err # "" THEN [ts |-> <<>>, err |-> l.err]
    ELSE IF ps.paramsLen >= 0 THEN replaceParams(l.ts, 1, ps.params, <<>>)
    ELSE [ts |-> l.ts, err |-> ""]

\* case "define": the cursor p is after the identifier `define`.  Yields the
\* new cursor and macro table, or an error.  (The field params of a macro is
\* not in the code's struct: it records the parameter names the body was
\* rewritten with, for the properties that speak of them.)
define(toks, p, macros) ==
    Only({
        IF n.err # ""
        THEN [pos |-> n.pos, macros |-> macros, err |-> n.err]
        ELSE Only({
            IF ps.err # ""
            THEN [pos |-> ps.pos, macros |-> macros, err |-> ps.err]
            ELSE Only({
                Only({
                    IF rw.err # ""
                    THEN [pos |-> l.pos, macros |-> macros, err |-> rw.err]
                    ELSE [pos |-> l.pos,
                          macros |-> SetMacro(macros, n.tk.Val,
                                        [name |-> n.tk.Val, tokens |-> rw.ts,
                                         paramsLen |-> ps.paramsLen,
                                         params |-> ps.params]),
                          err |-> ""]
                    : rw \in {macroBody(l, ps)}})
                : l \in {readLine(toks, ps.pos)}})
            : ps \in {readParams(toks, n.pos)}})
        : n \in {nextExpected(toks, p, {"Ident"})}})

-----------------------------------------------------------------------------
(* macro.apply and rescanning *)

\* The identifier t was produced by an expansion of the macro m ("the token
\* came from the same macro").
PaintedBlue_Never(t, m) == FALSE

PaintedBlue(t, m) == m.name \in t.ExpandedFrom

\* The tokens tks with names added to the ExpandedFrom of each.
Paint(tks, names) ==
    [i \in 1..Len(tks) |-> [tks[i] EXCEPT !.ExpandedFrom = @ \cup names]]

\* The number of nested rescans and of tokens rescanned within one apply.
MaxRescan == 8

ErrRescan == "preprocess: rescan limit"

\* The arguments of an invocation: rd[i..] is read up to the ')' that closes
\* the list, the tokens being grouped at the commas outside nested parentheses.
RECURSIVE collectArgs(_, _, _, _, _)
collectArgs(rd, i, depth, cur, args) ==
    IF i > Len(rd)
    THEN [args |-> <<>>, n |-> Len(rd), err |-> "preprocess: unterminated argument list"]
    ELSE IF rd[i].Type = ")" /\ depth = 0
    THEN [args |-> Append(args, cur), n |-> i, err |-> ""]
    ELSE Only({
            collectArgs(rd, i + 1, s.depth, s.cur, s.args)
            : s \in {IF rd[i].Type = "," /\ depth = 0
                     THEN [depth |-> 0, cur |-> <<>>, args |-> Append(args, cur)]
                     ELSE [depth |-> IF rd[i].Type = "(" THEN depth + 1
                                     ELSE IF rd[i].Type = ")" THEN depth - 1
                                     ELSE depth,
                           cur |-> Append(cur, rd[i]),
                           args |-> args]}})

\* The spelling of an argument: the spellings of its tokens, a space between.
RECURSIVE Stringify(_)
Stringify(arg) ==
    IF arg = <<>> THEN ""
    ELSE IF Len(arg) = 1 THEN TokenString(arg[1])
    ELSE TokenString(arg[1]) \o " " \o Stringify(Tail(arg))

\* The walk over the body: a Param with ParamHash yields the string literal
\* of the unexpanded argument, another Param the expanded argument.
RECURSIVE substitute(_, _, _, _)
substitute(body, i, args, exp) ==
    IF i > Len(body) THEN <<>>
    ELSE LET t == body[i]
             head == IF t.Type = "Param" /\ t.ParamHash
                     THEN <<PPTok("StringLiteral", Stringify(args[t.ParamIndex + 1]), FALSE)>>
                     ELSE IF t.Type = "Param"
                     THEN exp[t.ParamIndex + 1]
                     ELSE <<t>>
         IN head \o substitute(body, i + 1, args, exp)

\* The first error of a sequence of results, or "".
FirstErr(rs) ==
    IF \E i \in 1..Len(rs) : rs[i].err # ""
    THEN rs[CHOOSE i \in 1..Len(rs) :
                /\ rs[i].err # ""
                /\ \A j \in 1..(i - 1) : rs[j].err = ""].err
    ELSE ""

\* p.sub = append(tks, p.sub[src.pos:]...)
Splice_DropResult(tks, sub, n) == SubSeq(sub, n + 1, Len(sub))

\* The splice that keeps the tokens apply has read.
Splice_KeepsRead(tks, sub, n) == tks \o sub

Splice(tks, sub, n) == tks \o SubSeq(sub, n + 1, Len(sub))

RECURSIVE apply(_, _, _, _, _)
RECURSIVE Rescan(_, _, _, _)

\* m.apply(src, expandedFrom), rd being the tokens the reader src has ahead:
\* the replacement tks, the number n of tokens read from src, or an error.
apply(m, rd, caller, macros, fuel) ==
    IF m.paramsLen = -1
    THEN [tks |-> Paint(m.tokens, caller \cup {m.name}), n |-> 0, err |-> ""]
    ELSE IF rd = <<>> \/ rd[1].Type # "("
    THEN [tks |-> Paint(<<PPTok("Ident", m.name, FALSE)>>, caller \cup {m.name}),
          n |-> 0, err |-> ""]
    ELSE Only({
        IF c.err # ""
        THEN [tks |-> <<>>, n |-> c.n, err |-> c.err]
        ELSE Only({
            IF Len(args) # m.paramsLen
            THEN [tks |-> <<>>, n |-> c.n,
                  err |-> "preprocess: wrong number of arguments"]
            ELSE Only({
                Only({
                    IF e # ""
                    THEN [tks |-> <<>>, n |-> c.n, err |-> e]
                    ELSE [tks |-> Paint(substitute(m.tokens, 1, args,
                                            [i \in 1..Len(exp) |-> exp[i].out]),
                                        caller \cup {m.name}),
                          n |-> c.n, err |-> ""]
                    : e \in {FirstErr(exp)}})
                : exp \in {[i \in 1..Len(args) |-> Rescan(args[i], <<>>, macros, fuel - 1)]}})
            : args \in {IF m.paramsLen = 0 /\ c.args = << <<>> >> THEN <<>> ELSE c.args}})
        : c \in {collectArgs(rd, 2, 0, <<>>, <<>>)}})

\* One request on the pending queue q: its head is returned (appended to
\* out), or it is an identifier to expand and the replacement is spliced in.
rescanStep(q, out, macros, fuel) ==
    IF /\ q[1].Type = "Ident"
       /\ q[1].Val \in DOMAIN macros
       /\ ~PaintedBlue(q[1], macros[q[1].Val])
    THEN Only({
            [q |-> Splice(r.tks, Tail(q), r.n), out |-> out, err |-> r.err]
            : r \in {apply(macros[q[1].Val], Tail(q), q[1].ExpandedFrom, macros, fuel - 1)}})
    ELSE [q |-> Tail(q), out |-> Append(out, q[1]), err |-> ""]

\* The expanded form of an argument: the tokens q run through the pending
\* queue of a preprocessor with the macro table macros.
Rescan(q, out, macros, fuel) ==
    IF q = <<>>
    THEN [out |-> out, err |-> ""]
    ELSE IF fuel <= 0
    THEN [out |-> <<>>, err |-> ErrRescan]
    ELSE Only({
            IF s.err # ""
            THEN [out |-> <<>>, err |-> s.err]
            ELSE Rescan(s.q, s.out, macros, fuel - 1)
            : s \in {rescanStep(q, out, macros, fuel)}})

-----------------------------------------------------------------------------
(* preprocessor.next *)

\* What a call of next yields: the preprocessor after the call, the token
\* (NoPPToken for nil), the error ("" for nil) and, when the call stands at
\* the preprocessImpl of `#include`, the path to descend into.
Ret(p, t) == [p |-> p, tk |-> t, err |-> "", inc |-> ""]

Nothing(p) == [p |-> p, tk |-> NoPPToken, err |-> "", inc |-> ""]

Fail(p, e) == [p |-> p, tk |-> NoPPToken, err |-> e, inc |-> ""]

Descend(p, path) == [p |-> p, tk |-> NoPPToken, err |-> "", inc |-> path]

\* The call stands at m.apply for the identifier t.
Expand(p, t) == [p |-> p, tk |-> t, err |-> "", inc |-> "", apply |-> TRUE]

\* The branch of next for a non-empty pending queue p.sub.
nextSub(p) ==
    Only({
        IF t.Type # "Ident" THEN Ret(q, t)
        ELSE IF t.Val \notin DOMAIN p.macros THEN Ret(q, t)
        ELSE IF PaintedBlue(t, p.macros[t.Val]) THEN Ret(q, t)
        ELSE Expand(q, t)
        : t \in {Head(p.sub)}, q \in {[p EXCEPT !.sub = Tail(p.sub)]}})

\* The message of a directive that is not implemented.
NotImplemented(name) ==
    "preprocess: #" \o (IF name = "endif" THEN "line" ELSE name) \o " is not implemented"

\* The message of #error: " " and the spelling of every token of the line.
RECURSIVE errorMsg(_)
errorMsg(line) ==
    IF line = <<>> THEN ""
    ELSE " " \o TokenString(Head(line)) \o errorMsg(Tail(line))

\* case "undef"
undef(p, toks) ==
    Only({
        IF n.err # "" THEN Fail(p, n.err)
        ELSE Only({
                IF e.err # "" THEN Fail(q, e.err) ELSE Nothing(q)
                : e \in {nextExpected(toks, n.pos, {LF})},
                  q \in {[p EXCEPT !.pos = n.pos + 1,
                                   !.macros = DeleteMacro(@, n.tk.Val)]}})
        : n \in {nextExpected(toks, p.pos, {"Ident"})}})

\* case "include", up to the call of preprocessImpl.
include(p, toks, vis) ==
    Only({
        IF n.err # "" THEN Fail(p, n.err)
        ELSE IF n.tk.Val \in vis
        THEN Fail([p EXCEPT !.pos = n.pos],
                  "preprocess: recursive #include: " \o n.tk.Val)
        ELSE Descend([p EXCEPT !.pos = n.pos, !.sub = <<>>, !.origin = ""], n.tk.Val)
        : n \in {nextExpected(toks, p.pos, {"HeaderName"})}})

\* case "define"
defineDirective(p, toks) ==
    Only({
        IF d.err # "" THEN Fail([p EXCEPT !.pos = d.pos], d.err)
        ELSE Nothing([p EXCEPT !.pos = d.pos, !.macros = d.macros])
        : d \in {define(toks, p.pos, p.macros)}})

\* case "error"
errorDirective(p, toks) ==
    Only({
        IF l.err # "" THEN Fail(p, l.err)
        ELSE Fail([p EXCEPT !.pos = l.pos], "preprocess: #error" \o errorMsg(l.ts))
        : l \in {readLine(toks, p.pos)}})

\* A '#' at the head of a line: the cursor of p is after the '#'.
directive(p, toks, vis) ==
    Only({
        IF t.Type = LF THEN Ret(q, t)
        ELSE IF t.Type # "Ident"
        THEN Fail(q, "preprocess: expected Identifier but " \o t.Type)
        ELSE CASE t.Val = "define" -> defineDirective(q, toks)
               [] t.Val = "undef" -> undef(q, toks)
               [] t.Val = "include" -> include(q, toks, vis)
               [] t.Val \in {"if", "ifdef", "ifndef", "else", "endif",
                             "line", "elif", "pragma"} ->
                     Fail(q, NotImplemented(t.Val))
               [] t.Val = "error" -> errorDirective(q, toks)
               [] OTHER ->
                     Fail(q, "preprocess: invalid preprocessing directive " \o t.Val)
        : t \in {NextPPToken(toks, p.pos).tk},
          q \in {[p EXCEPT !.pos = NextPPToken(toks, p.pos).pos]}})

\* The branch of next that reads the source vector.
nextSrc(p, toks, vis) ==
    Only({
        IF t.Type = "Ident"
        THEN IF t.Val \notin DOMAIN p.macros THEN Ret(q, t) ELSE Expand(q, t)
        ELSE IF t.Type = "#" /\ AtLineHead(toks, p.pos)
        THEN directive(q, toks, vis)
        ELSE Ret(q, t)
        : t \in {NextPPToken(toks, p.pos).tk},
          q \in {[p EXCEPT !.pos = NextPPToken(toks, p.pos).pos]}})

\* expand with the cursor of the source moved one token too far.
expand_SkipsNext(o, fromSub, toks) ==
    Only({
        IF r.err # ""
        THEN Fail(o.p, r.err)
        ELSE IF fromSub
        THEN Nothing([o.p EXCEPT !.sub = Splice(r.tks, o.p.sub, r.n)])
        ELSE Nothing([o.p EXCEPT !.pos = o.p.pos + r.n + 1,
                                 !.sub = r.tks,
                                 !.origin = o.tk.Val])
        : r \in {apply(o.p.macros[o.tk.Val],
                       IF fromSub THEN o.p.sub
                       ELSE SubSeq(toks, o.p.pos + 1, Len(toks)),
                       IF fromSub THEN o.tk.ExpandedFrom ELSE {},
                       o.p.macros, MaxRescan)}})

\* The call of m.apply in next and what follows it: from the pending queue,
\* apply reads the queue and the replacement is spliced in front of what it
\* left; from the source, apply reads the source and the replacement becomes
\* the queue.
expand(o, fromSub, toks) ==
    Only({
        IF r.err # ""
        THEN Fail(o.p, r.err)
        ELSE IF fromSub
        THEN Nothing([o.p EXCEPT !.sub = Splice(r.tks, o.p.sub, r.n)])
        ELSE Nothing([o.p EXCEPT !.pos = o.p.pos + r.n,
                                 !.sub = r.tks,
                                 !.origin = o.tk.Val])
        : r \in {apply(o.p.macros[o.tk.Val],
                       IF fromSub THEN o.p.sub
                       ELSE SubSeq(toks, o.p.pos + 1, Len(toks)),
                       IF fromSub THEN o.tk.ExpandedFrom ELSE {},
                       o.p.macros, MaxRescan)}})

\* preprocessor.next
ppNext(p, toks, vis) ==
    Only({
        IF "apply" \in DOMAIN o THEN expand(o, Len(p.sub) > 0, toks) ELSE o
        : o \in {IF Len(p.sub) > 0 THEN nextSub(p) ELSE nextSrc(p, toks, vis)}})

-----------------------------------------------------------------------------
(* Preprocess: the preprocessors of the include stack *)

\* preprocessImpl: a preprocessor for path, its source not yet opened, with a
\* macro table of its own.  origin is history: the identifier of the source
\* whose expansion filled sub.
preprocessImpl(path) ==
    [path |-> path, opened |-> FALSE, pos |-> 0, sub |-> <<>>,
     macros |-> NoMacros, origin |-> ""]

\* The visited set Preprocess starts with.
StartVisited_Empty(path) == {}

StartVisited(path) == {path}

\* The depth of the include stack.
MaxDepth == 4

\* The innermost preprocessor: the one whose NextPPToken is running.
Cur == stack[Len(stack)]

\* The paths of the preprocessors on the include stack.
StackPaths == {stack[i].path : i \in 1..Len(stack)}

\* The call of next by NextPPToken of the innermost preprocessor.
Step == ppNext([Cur EXCEPT !.opened = TRUE], tokens[Cur.path], visited)

CanStep == ppStatus = "running" /\ Cur.path \in DOMAIN tokens

\* NextPPToken finds no token vector for the path.
FileNotFound ==
    /\ OnlyPreprocess
    /\ ppStatus = "running"
    /\ Cur.path \notin DOMAIN tokens
    /\ ppStatus' = "error"
    /\ ppErr' = "preprocess: file not found: " \o Cur.path
    /\ UNCHANGED <<tokens, stack, visited, emitted>>

\* The tokens the loop of NextPPToken drops: the nil of a (nil, nil) return
\* of next, and '\n'.
Discarded_NilOnly(t) == t.Type = "nil"

Discarded(t) == t.Type \in {"nil", LF}

\* next yields a token and NextPPToken returns it: to Preprocess, which
\* appends it to its result, or to the include loop of the including
\* preprocessor, which appends it to its sub.
ReturnToken ==
    /\ OnlyPreprocess
    /\ CanStep
    /\ \E r \in {Step} :
          /\ r.err = "" /\ r.inc = ""
          /\ ~Discarded(r.tk)
          /\ r.tk.Type # "EOF"
          /\ IF Len(stack) = 1
             THEN /\ emitted' = Append(emitted, r.tk)
                  /\ stack' = <<r.p>>
             ELSE /\ emitted' = emitted
                  /\ stack' = [stack EXCEPT ![Len(stack)] = r.p,
                                            ![Len(stack) - 1].sub = Append(@, r.tk)]
    /\ UNCHANGED <<tokens, visited, ppStatus, ppErr>>

\* next yields nothing (a directive done, a macro applied) or a '\n', which
\* NextPPToken discards: the loop of NextPPToken goes on.
Discard ==
    /\ OnlyPreprocess
    /\ CanStep
    /\ \E r \in {Step} :
          /\ r.err = "" /\ r.inc = ""
          /\ Discarded(r.tk)
          /\ stack' = [stack EXCEPT ![Len(stack)] = r.p]
    /\ UNCHANGED <<tokens, visited, emitted, ppStatus, ppErr>>

\* next is at `#include` of a path not visited: the path is added to visited
\* and the preprocessor of the included unit is created; the include loop
\* starts to drain it.
EnterInclude ==
    /\ OnlyPreprocess
    /\ CanStep
    /\ Len(stack) < MaxDepth
    /\ \E r \in {Step} :
          /\ r.err = "" /\ r.inc # ""
          /\ visited' = visited \cup {r.inc}
          /\ stack' = Append([stack EXCEPT ![Len(stack)] = r.p], preprocessImpl(r.inc))
    /\ UNCHANGED <<tokens, emitted, ppStatus, ppErr>>

\* next yields the EOF token: the loop of Preprocess ends, or the include
\* loop of the including preprocessor does and its next returns nothing.
ReachEOF ==
    /\ OnlyPreprocess
    /\ CanStep
    /\ \E r \in {Step} :
          /\ r.err = "" /\ r.inc = ""
          /\ r.tk.Type = "EOF"
          /\ IF Len(stack) = 1
             THEN /\ stack' = <<r.p>>
                  /\ ppStatus' = "eof"
             ELSE /\ stack' = SubSeq(stack, 1, Len(stack) - 1)
                  /\ ppStatus' = ppStatus
    /\ UNCHANGED <<tokens, visited, emitted, ppErr>>

\* next fails: every NextPPToken on the stack returns the error, and so
\* does Preprocess.
ReturnError ==
    /\ OnlyPreprocess
    /\ CanStep
    /\ \E r \in {Step} :
          /\ r.err # ""
          /\ stack' = [stack EXCEPT ![Len(stack)] = r.p]
          /\ ppStatus' = "error"
          /\ ppErr' = r.err
    /\ UNCHANGED <<tokens, visited, emitted>>

PPNext ==
    FileNotFound \/ ReturnToken \/ Discard \/ EnterInclude \/ ReachEOF \/ ReturnError

-----------------------------------------------------------------------------
(* Inputs of the preprocessor *)

Id(v) == PPTok("Ident", v, FALSE)

Punct(type) == PPTok(type, "", TRUE)

\* `#define name body`
DefineLine(name, body) ==
    <<Punct("#"), PPTok("Ident", "define", TRUE), Id(name)>> \o body \o <<Punct(LF)>>

\* `#include "path"`
IncludeLine(path) ==
    <<Punct("#"), PPTok("Ident", "include", TRUE),
      PPTok("HeaderName", path, FALSE), Punct(LF)>>

\* The blocks of lines of the units with macros: cycles of object-like
\* macros of length 1, 2 and 3 (the third with the first block), a
\* function-like macro that names itself, uses, and an include of a path
\* that has no unit.
MacroBlocks ==
    {DefineLine("A", <<Id("B")>>),
     DefineLine("B", <<Id("A")>>),
     DefineLine("A", <<Id("A")>>),
     DefineLine("B", <<Id("C")>>) \o DefineLine("C", <<Id("A")>>),
     <<Punct("#"), PPTok("Ident", "define", TRUE), Id("F"), Punct("("),
       PPTok("Ident", "x", TRUE), Punct(")"), Id("x"), Id("F"), Punct(LF)>>,
     <<Id("A"), Punct(LF)>>,
     <<Id("F"), Punct("("), PPTok("Ident", "A", TRUE), Punct(")"), Punct(LF)>>,
     <<Id("F"), Punct(LF)>>,
     IncludeLine("c")}

\* The lines of the units that include one another.
IncludeLines ==
    {IncludeLine("a"), IncludeLine("b"),
     DefineLine("X", <<Id("Y")>>),
     <<Id("X"), Punct(LF)>>}

\* `# name`
DirectiveLine(name) ==
    <<Punct("#"), PPTok("Ident", name, TRUE), Punct(LF)>>

\* `#define F(x,y) #y x z`
DefineF ==
    <<Punct("#"), PPTok("Ident", "define", TRUE), Id("F"), Punct("("),
      PPTok("Ident", "x", TRUE), Punct(","), PPTok("Ident", "y", TRUE), Punct(")"),
      PPTok("#", "", FALSE), PPTok("Ident", "y", TRUE), Id("x"), Id("z"), Punct(LF)>>

\* `#define F(x) body`
DefineF1(body) ==
    <<Punct("#"), PPTok("Ident", "define", TRUE), Id("F"), Punct("("),
      PPTok("Ident", "x", TRUE), Punct(")")>> \o body \o <<Punct(LF)>>

\* `#define G() z`
DefineG0 ==
    <<Punct("#"), PPTok("Ident", "define", TRUE), Id("G"), Punct("("), Punct(")"),
      Id("z"), Punct(LF)>>

\* The directives that are named and not implemented.
NotImplementedNames ==
    {"if", "ifdef", "ifndef", "else", "elif", "endif", "line", "pragma"}

\* The blocks of lines of the units with directives: the empty directive, a
\* '#' in the middle of a line and one in the body of an object-like macro,
\* definitions with and without a parameter list, definitions whose '#' has
\* no parameter after it, #undef, the directives that are not implemented, an
\* unknown directive, #error, a definition whose parameter list lacks a
\* comma, the name of a function-like macro without arguments
\* (in the source and in a replacement), an invocation in a replacement with
\* a token after it, and an invocation whose arguments are on two lines.
DirectiveBlocks ==
    {<<Punct("#"), Punct(LF)>>,
     <<Id("z"), PPTok("#", "", FALSE), Id("define"), Id("F"), Punct(LF)>>,
     DefineLine("H", <<PPTok("#", "", FALSE), Id("define"), Id("F")>>),
     <<Id("H"), Punct(LF)>>,
     DefineLine("G", <<PPTok("(", "", FALSE), PPTok("Ident", "x", TRUE), Punct(")"), Id("x")>>),
     DefineG0,
     DefineF,
     DefineG0 \o DefineF,
     DefineF \o DefineLine("K", <<Id("F"), Punct("("), PPTok("Ident", "A", TRUE),
                                   Punct(","), Id("z"), Punct(")"), Id("z")>>),
     DefineF1(<<PPTok("#", "", FALSE), Id("z")>>),
     DefineF1(<<Id("x"), PPTok("#", "", FALSE)>>),
     <<Punct("#"), PPTok("Ident", "undef", TRUE), Id("F"), Punct(LF)>>,
     <<Punct("#"), PPTok("Ident", "undef", TRUE), Id("F"), Id("z"), Punct(LF)>>,
     DirectiveLine("foo"),
     <<Punct("#"), PPTok("Ident", "error", TRUE), Id("z"), Id("A"), Punct(LF)>>,
     <<Punct("#"), PPTok("Ident", "define", TRUE), Id("F"), Punct("("),
       PPTok("Ident", "x", TRUE), Id("z"), Punct(")"), Id("z"), Punct(LF)>>,
     <<Id("F"), Id("z"), Punct(LF)>>,
     DefineLine("K", <<Id("F"), Id("z")>>),
     <<Id("K"), Punct(LF)>>,
     <<Id("F"), Punct("("), PPTok("Ident", "A", TRUE), Punct(LF),
       PPTok(",", "", FALSE), Id("z"), Punct(")"), Punct(LF)>>}
        \cup {DirectiveLine(d) : d \in NotImplementedNames}

\* The number of blocks of a unit with macros, of lines of a unit with
\* includes, and of blocks of a unit with directives.
MaxBlocks == 3

MaxIncLines == 2

MaxDirBlocks == 2

\* The units of at most n of the pieces.
Units(pieces, n) ==
    {Flatten(ls) : ls \in [1..n -> pieces \cup {<<>>}]} \ {<<>>}

\* The token maps handed to Preprocess: one unit "a" with macros, one unit
\* "a" with directives, or two units "a" and "b" with includes.
PPInputs(n, k, d) ==
    {[p \in {"a"} |-> u] : u \in Units(MacroBlocks, n)}
        \cup
    {[p \in {"a"} |-> u] : u \in Units(DirectiveBlocks, d)}
        \cup
    {[p \in {"a", "b"} |-> IF p = "a" THEN ua ELSE ub] :
        ua \in Units(IncludeLines, k), ub \in Units(IncludeLines, k)}

\* Preprocess("a", tokens)
PPInit ==
    /\ tokens \in PPInputs(MaxBlocks, MaxIncLines, MaxDirBlocks)
    /\ stack = <<preprocessImpl("a")>>
    /\ visited = StartVisited("a")
    /\ emitted = <<>>
    /\ ppStatus = "running"
    /\ ppErr = ""

-----------------------------------------------------------------------------
(* ReadPPNumber called on its own *)

\* The bytes of the sources: a digit, '.', an exponent letter, a sign,
\* another letter and a byte that no pp-number has.
NumBytes == {"1", ".", "e", "+", "a", " "}

\* The length of a source.
MaxNumLen == 3

NumInputs(n) == UNION {[1..k -> NumBytes] : k \in 0..n}

NumInit ==
    /\ numSrc \in NumInputs(MaxNumLen)
    /\ numPos = 0
    /\ numVal = <<>>
    /\ numState = "ready"

\* ReadPPNumber returns a string.
PPNumberRead ==
    /\ OnlyPPNumber
    /\ numState = "ready"
    /\ \E r \in {ReadPPNumber(numSrc)} :
          /\ r.ok
          /\ numPos' = r.n
          /\ numVal' = r.val
    /\ numState' = "ok"
    /\ UNCHANGED numSrc

\* ReadPPNumber returns an error: that of ShouldReadByte at the end of the
\* input, or that of a first byte that is neither a digit nor '.'.
PPNumberError ==
    /\ OnlyPPNumber
    /\ numState = "ready"
    /\ \E r \in {ReadPPNumber(numSrc)} :
          /\ ~r.ok
          /\ numPos' = r.n
          /\ numVal' = r.val
    /\ numState' = "error"
    /\ UNCHANGED numSrc

NumNext == PPNumberRead \/ PPNumberError

-----------------------------------------------------------------------------
(* Specifications *)

\* The tokenizer before Tokenize is called.
ScanIdle ==
    /\ src = <<>>
    /\ pos = 0
    /\ ppstate = 0
    /\ isSpace = FALSE
    /\ wasSpace = FALSE
    /\ ts = <<>>
    /\ spans = <<>>
    /\ scanState = "idle"

FinIdle ==
    /\ vec0 = <<>>
    /\ heap = <<>>
    /\ vec = <<>>
    /\ out1 = <<>>
    /\ vals1 = <<>>
    /\ out2 = <<>>
    /\ finState = "idle"

PPIdle ==
    /\ tokens = <<>>
    /\ stack = <<>>
    /\ visited = {}
    /\ emitted = <<>>
    /\ ppStatus = "idle"
    /\ ppErr = ""

NumIdle ==
    /\ numSrc = <<>>
    /\ numPos = 0
    /\ numVal = <<>>
    /\ numState = "idle"

\* Tokenize on every source of ScanInputs(MaxFrags).
SpecScanInit == ScanInit /\ FinIdle /\ PPIdle /\ NumIdle

SpecScan ==
    /\ SpecScanInit
    /\ [][ScanNext]_vars

\* FinishTokenize on every vector of at most MaxVec tokens.
SpecFinishInit == FinInit /\ ScanIdle /\ PPIdle /\ NumIdle

SpecFinish ==
    /\ SpecFinishInit
    /\ [][FinNext]_vars

\* Preprocess("a", tokens) on every token map of PPInputs(MaxBlocks, MaxIncLines).
SpecPreprocessInit == PPInit /\ ScanIdle /\ FinIdle /\ NumIdle

SpecPreprocess ==
    /\ SpecPreprocessInit
    /\ [][PPNext]_vars

\* The same with the loops of Preprocess and NextPPToken running on: a call
\* that can go on does go on.
SpecPreprocessFair ==
    /\ SpecPreprocessInit
    /\ [][PPNext]_vars
    /\ WF_vars(PPNext)

\* ReadPPNumber on every byte string of at most MaxNumLen bytes of NumBytes.
SpecPPNumberInit == NumInit /\ ScanIdle /\ FinIdle /\ PPIdle

SpecPPNumber ==
    /\ SpecPPNumberInit
    /\ [][NumNext]_vars

-----------------------------------------------------------------------------
(* Properties of the tokenizer *)

\* C1: whenever scan returns a token vector (tokenization succeeded), the
\* vector is non-empty and its last token is Newline.
C1_LastTokenIsNewline ==
    scanState = "done" => Len(ts) > 0 /\ ts[Len(ts)].Type = LF

\* C1 witness: scan has returned for the empty source, where no token was lexed.
C1_Witness_Empty == scanState = "done" /\ src = <<>> /\ Len(ts) = 1

\* Whether a whitespace byte lies in src strictly between byte indexes lo and hi.
SpaceBetween(lo, hi) == \E k \in (lo + 1)..(hi - 1) : src[k] \in WhiteBytes

\* C7: every token lexed after another token that is not a Newline has
\* Adjacent true exactly when no whitespace byte lies between the last byte
\* of the previous token and its own first byte, comments in between or not.
\* (The tokens that follow a Newline are left out: there the byte before the
\* token is the newline itself.)
C7_AdjacentIffNoSpace ==
    \A i \in 2..Len(ts) :
        (spans[i].from <= spans[i].to /\ ts[i - 1].Type # LF) =>
            (ts[i].Adjacent <=> ~SpaceBetween(spans[i - 1].to, spans[i].from))

\* C8: when scan has returned, a source that is one multi-character
\* punctuator gives exactly that one token (and the closing Newline), the
\* same bytes with a space inside give at least two tokens none of which is
\* that punctuator, and ".." gives no ellipsis token.
C8_MaximalMunch ==
    scanState = "done" =>
        /\ \A P \in Punctuators :
            /\ src = P.bytes => Len(ts) = 2 /\ ts[1].Type = P.type
            /\ \A k \in 1..(Len(P.bytes) - 1) :
                 src = SplitAt(P.bytes, k) =>
                    /\ Len(ts) >= 3
                    /\ \A i \in 1..Len(ts) : ts[i].Type # P.type
        /\ src = <<".", ".">> => \A i \in 1..Len(ts) : ts[i].Type # "DotDotDot"

-----------------------------------------------------------------------------
(* Properties of FinishTokenize *)

\* The kind and string value of each token of a sequence of tokens.
Values(v) == [i \in 1..Len(v) |-> [Type |-> v[i].Type, StringValue |-> v[i].StringValue]]

\* C9: FinishTokenize applied to the vector FinishTokenize returned gives a
\* vector of the same length with the same kinds and string values in the
\* same order, and leaves the first result as it was.
C9_FinishIdempotent ==
    finState = "twiceResult" =>
        /\ Values(Deref(heap, out2)) = Values(vals1)
        /\ Values(Deref(heap, out1)) = Values(vals1)

\* C9 witness: the second call has returned for an input in which the first
\* call joined string literals.
C9_Witness_JoinedThenAgain ==
    /\ finState = "twiceResult"
    /\ Len(out1) < Len(stripNewLineTokens(vec0, vec))

\* The length of the run of StringLiteral tokens at the front of v.
RECURSIVE RunLen(_)
RunLen(v) ==
    IF v = <<>> \/ Head(v).Type # "StringLiteral" THEN 0
    ELSE 1 + RunLen(Tail(v))

RECURSIVE ConcatValues(_)
ConcatValues(v) ==
    IF v = <<>> THEN <<>> ELSE Head(v).StringValue \o ConcatValues(Tail(v))

\* A sequence of tokens without its Newline tokens.
WithoutNewlines(v) == 
    LET keep == {i \in 1..Len(v) : v[i].Type # LF}
        RECURSIVE pick(_)
        pick(i) == IF i > Len(v) THEN <<>>
                   ELSE IF i \in keep THEN <<v[i]>> \o pick(i + 1)
                   ELSE pick(i + 1)
    IN pick(1)

\* Every maximal run of StringLiteral tokens of v replaced by one
\* StringLiteral holding the concatenation of the run's values.
RECURSIVE RunsJoined(_)
RunsJoined(v) ==
    IF v = <<>> THEN <<>>
    ELSE LET k == RunLen(v)
         IN IF k = 0 THEN <<Head(v)>> \o RunsJoined(Tail(v))
            ELSE <<[Head(v) EXCEPT !.StringValue = ConcatValues(SubSeq(v, 1, k))]>>
                 \o RunsJoined(SubSeq(v, k + 1, Len(v)))

\* C10: the vector FinishTokenize returns is the input without its Newline
\* tokens and with every maximal run of StringLiteral tokens replaced by one
\* StringLiteral of the concatenated values; it holds no Newline and no two
\* consecutive StringLiteral tokens.
C10_FinishJoinsRuns ==
    finState = "once" =>
        /\ vals1 = RunsJoined(WithoutNewlines(vec0))
        /\ \A i \in 1..Len(vals1) : vals1[i].Type # LF
        /\ \A i \in 1..(Len(vals1) - 1) :
             ~(vals1[i].Type = "StringLiteral" /\ vals1[i + 1].Type = "StringLiteral")

\* C10 witness: a run of two string literals separated by a Newline in the
\* input has been joined into one token.
C10_Witness_RunAcrossNewline ==
    /\ finState = "once"
    /\ Len(vec0) = 3
    /\ vec0[1].Type = "StringLiteral" /\ vec0[2].Type = LF /\ vec0[3].Type = "StringLiteral"
    /\ vec0[1].StringValue = <<"a">> /\ vec0[3].StringValue = <<"b">>
    /\ Len(vals1) = 1 /\ vals1[1].StringValue = <<"a", "b">>

\* The source has no byte that opens a literal or a header name and no block
\* comment.
PlainSource ==
    /\ \A k \in 1..Len(src) : src[k] \notin {DQ, SQ, "<"}
    /\ \A k \in 1..(Len(src) - 1) : ~(src[k] = "/" /\ src[k + 1] = "*")

\* C12: in a source without literals and block comments, a step of the scan
\* that consumes a '\n' byte appends one Newline token, whose span is that
\* byte, and leaves ppstate 0: so also the '\n' that ends a `//` comment.
C12_NewlineByteYieldsToken ==
    [][(/\ PlainSource
        /\ scanState = "scanning" /\ scanState' = "scanning"
        /\ \E k \in (pos + 1)..pos' : src[k] = LF)
       => /\ ppstate' = 0
          /\ Len(ts') = Len(ts) + 1
          /\ ts'[Len(ts')].Type = LF
          /\ src[spans'[Len(ts')].from] = LF
          /\ spans'[Len(ts')].from = spans'[Len(ts')].to]_vars

\* The index of the last Newline token of ts, or 0.
LastNewline ==
    IF \E i \in 1..Len(ts) : ts[i].Type = LF
    THEN CHOOSE i \in 1..Len(ts) :
             /\ ts[i].Type = LF
             /\ \A j \in (i + 1)..Len(ts) : ts[j].Type # LF
    ELSE 0

\* The tokens emitted so far on the current line: those after the last
\* Newline token.
LineTokens == SubSeq(ts, LastNewline + 1, Len(ts))

\* The line so far is `#` and the identifier include, and nothing else.
HashInclude ==
    /\ Len(LineTokens) = 2
    /\ LineTokens[1].Type = "#"
    /\ LineTokens[2].Type = "Ident"
    /\ LineTokens[2].Name = IncludeName

\* A token is appended in this step.
Emitted == Len(ts') = Len(ts) + 1 /\ scanState' = "scanning"

BlockCommentAhead ==
    /\ scanState = "scanning"
    /\ pos + 2 <= Len(src)
    /\ src[pos + 1] = "/"
    /\ src[pos + 2] = "*"

\* The indexes of the "*/" that begin after the two opening bytes.
Closers ==
    {k \in (pos + 3)..(Len(src) - 1) : src[k] = "*" /\ src[k + 1] = "/"}

FirstCloser == CHOOSE k \in Closers : \A j \in Closers : k <= j

\* C21: a block comment ends at the first "*/" that begins after its "/*":
\* the call of nextImpl at "/*" yields no token and leaves the cursor after
\* that "*/", and ppstate as it was.  When there is no such "*/" the scan
\* fails with the error of the unclosed block comment and has no vector; and
\* the scan fails with that error in no other case.
C21_BlockComment ==
    /\ [][(BlockCommentAhead /\ Closers # {}) =>
            /\ scanState' = "scanning"
            /\ ts' = ts
            /\ pos' = FirstCloser + 1
            /\ ppstate' = ppstate]_vars
    /\ [][(BlockCommentAhead /\ Closers = {}) =>
            /\ scanState' = ErrUnclosedComment
            /\ ts' = <<>>]_vars
    /\ [][(scanState = "scanning" /\ scanState' = ErrUnclosedComment) =>
            (BlockCommentAhead /\ Closers = {})]_vars

\* The source begins with "/*/", which does not close the comment, and the
\* scan is past the "*/" that does: no token has been made.
C21_Witness_SlashStarSlash ==
    /\ scanState = "scanning"
    /\ Len(src) >= 5
    /\ src[1] = "/" /\ src[2] = "*" /\ src[3] = "/"
    /\ pos = Len(src)
    /\ ts = <<>>

\* The byte b goes on a pp-number: a digit, '.', a letter or '_'.
GoesOn(b) ==
    \/ b \in {"0", "1", "2", "3", "4", "5", "6", "7", "8", "9", "."}
    \/ b \in Lower \cup Upper \cup {"_"}

\* The first k bytes of numSrc are such that each byte after the first goes
\* on a pp-number or is a sign directly after an exponent letter.
NumberPrefix(k) ==
    \A i \in 2..k :
        \/ GoesOn(numSrc[i])
        \/ numSrc[i] \in {"+", "-"} /\ numSrc[i - 1] \in {"e", "E", "p", "P"}

\* The length of the longest such prefix.
LongestNumberPrefix ==
    CHOOSE k \in 1..Len(numSrc) :
        /\ NumberPrefix(k)
        /\ \A j \in (k + 1)..Len(numSrc) : ~NumberPrefix(j)

\* numSrc starts with a digit, or with '.' and a digit.
NumberStart ==
    /\ numSrc # <<>>
    /\ \/ numSrc[1] \in {"0", "1", "2", "3", "4", "5", "6", "7", "8", "9"}
       \/ /\ numSrc[1] = "."
          /\ Len(numSrc) >= 2
          /\ numSrc[2] \in {"0", "1", "2", "3", "4", "5", "6", "7", "8", "9"}

\* C22: when ReadPPNumber succeeds its input starts with a digit, or with
\* '.' and a digit; the string returned is the longest prefix of the input
\* in which every further byte is a digit, '.', a letter or '_', or a sign
\* directly after e, E, p or P; and exactly the bytes returned are consumed.
C22_PPNumberLongestPrefix ==
    numState = "ok" =>
        /\ NumberStart
        /\ numVal = SubSeq(numSrc, 1, LongestNumberPrefix)
        /\ numPos = Len(numVal)

\* C24: FinishTokenize leaves the tokens of its input vector as they were:
\* after a call every token of the input has the kind and the StringValue it
\* had before; and a second call on the same input vector returns tokens
\* equal to those the first call returned.
C24_FinishLeavesInput ==
    /\ finState \in {"once", "twiceResult", "twiceInput"} =>
          \A i \in 1..Len(vec) :
              /\ heap[vec[i]].Type = vec0[i].Type
              /\ heap[vec[i]].StringValue = vec0[i].StringValue
    /\ finState = "twiceInput" => Deref(heap, out2) = vals1

-----------------------------------------------------------------------------
(* Properties of the preprocessor *)

\* A token is returned in this step: to Preprocess or to the including
\* preprocessor.
SomethingReturned ==
    IF Len(stack) = 1
    THEN emitted' # emitted
    ELSE /\ Len(stack') = Len(stack)
         /\ stack'[Len(stack) - 1].sub # stack[Len(stack) - 1].sub

\* The token returned in such a step.
ReturnedTok ==
    IF Len(stack) = 1
    THEN emitted'[Len(emitted')]
    ELSE stack'[Len(stack) - 1].sub[Len(stack'[Len(stack) - 1].sub)]

\* C2: every run of Preprocess ends: after finitely many calls of next the
\* stream has reached EOF or an error, whatever macros the source defines,
\* macros that name themselves directly or through others and function-like
\* macro names without '(' included.
C2_PreprocessTerminates == <>(ppStatus \in {"eof", "error"})

\* Preprocess has returned after the expansion of a macro stopped at an
\* identifier painted with its own name.
C2_Witness_SelfReferenceDone ==
    /\ ppStatus = "eof"
    /\ \E i \in 1..Len(emitted) :
          /\ emitted[i].Type = "Ident"
          /\ emitted[i].Val \in emitted[i].ExpandedFrom
          /\ emitted[i].Val \in DOMAIN stack[1].macros

\* The names of the cycle of object-like macros through n, each defined as
\* the single identifier naming the next; {} when n is on no such cycle.
RECURSIVE CycleFrom(_, _, _, _)
CycleFrom(ms, start, n, seen) ==
    IF n \notin DOMAIN ms THEN {}
    ELSE IF ms[n].paramsLen # -1 \/ Len(ms[n].tokens) # 1 THEN {}
    ELSE IF ms[n].tokens[1].Type # "Ident" THEN {}
    ELSE IF ms[n].tokens[1].Val = start THEN seen \cup {n}
    ELSE IF ms[n].tokens[1].Val \in seen \cup {n} THEN {}
    ELSE CycleFrom(ms, start, ms[n].tokens[1].Val, seen \cup {n})

Cycle(ms, n) == CycleFrom(ms, n, n, {})

\* The head of the pending queue of the innermost preprocessor is an
\* identifier painted with the name of its own macro.
HeadIsPainted ==
    /\ ppStatus = "running"
    /\ Cur.sub # <<>>
    /\ Cur.sub[1].Type = "Ident"
    /\ Cur.sub[1].Val \in DOMAIN Cur.macros
    /\ Cur.macros[Cur.sub[1].Val].name \in Cur.sub[1].ExpandedFrom

\* C3: while the pending queue holds the expansion of a source identifier M1
\* that is on a cycle of object-like macros, no call fails, a call that
\* returns nothing leaves the queue non-empty, and the call that returns a
\* token returns the identifier M1 with every name of the cycle in its
\* ExpandedFrom and leaves the queue empty: the occurrence of M1 expands to
\* exactly that one token.  And an identifier at the head of the pending queue
\* that is painted with its own macro name is returned as it is, the queue
\* losing just its head.
C3_CycleExpandsToItself ==
    /\ [][(ppStatus = "running" /\ Cur.sub # <<>> /\ Cycle(Cur.macros, Cur.origin) # {}) =>
            /\ ppStatus' = "running"
            /\ Len(stack') = Len(stack)
            /\ IF SomethingReturned
               THEN /\ ReturnedTok.Type = "Ident"
                    /\ ReturnedTok.Val = Cur.origin
                    /\ Cycle(Cur.macros, Cur.origin) \subseteq ReturnedTok.ExpandedFrom
                    /\ stack'[Len(stack)].sub = <<>>
               ELSE stack'[Len(stack)].sub # <<>>]_vars
    /\ [][HeadIsPainted =>
            /\ SomethingReturned
            /\ ReturnedTok = Cur.sub[1]
            /\ Len(stack') = Len(stack)
            /\ stack'[Len(stack)].sub = Tail(Cur.sub)]_vars

\* Preprocess has returned the single identifier A, painted A, B and C, for
\* `#define A B / #define B C / #define C A / A`.
C3_Witness_ThreeCycle ==
    /\ ppStatus = "eof"
    /\ Len(emitted) = 1
    /\ emitted[1].Type = "Ident"
    /\ emitted[1].Val = "A"
    /\ emitted[1].ExpandedFrom = {"A", "B", "C"}
    /\ Cycle(stack[1].macros, "A") = {"A", "B", "C"}

\* The path of the `#include` the next call of next stands at, or "".
PendingInclude ==
    IF /\ ppStatus = "running"
       /\ Cur.path \in DOMAIN tokens
       /\ Cur.sub = <<>>
       /\ Cur.pos + 3 <= Len(tokens[Cur.path])
    THEN IF /\ AtLineHead(tokens[Cur.path], Cur.pos)
            /\ tokens[Cur.path][Cur.pos + 1].Type = "#"
            /\ tokens[Cur.path][Cur.pos + 2].Type = "Ident"
            /\ tokens[Cur.path][Cur.pos + 2].Val = "include"
            /\ tokens[Cur.path][Cur.pos + 3].Type = "HeaderName"
         THEN tokens[Cur.path][Cur.pos + 3].Val
         ELSE ""
    ELSE ""

\* C4: an `#include` of a path that is on the include stack (the start path
\* or a path being included at any depth) makes Preprocess fail with
\* "recursive #include: <path>"; no path is ever twice on the stack.
C4_IncludeCycleFails ==
    /\ [][(PendingInclude \in StackPaths) =>
            /\ ppStatus' = "error"
            /\ ppErr' = ("preprocess: recursive #include: " \o PendingInclude)]_vars
    /\ [](\A i, j \in 1..Len(stack) : stack[i].path = stack[j].path => i = j)

\* Unit "b", included from "a", includes "a" and Preprocess has failed.
C4_Witness_MutualCycle ==
    /\ ppStatus = "error"
    /\ ppErr = "preprocess: recursive #include: a"
    /\ Len(stack) = 2
    /\ stack[2].path = "b"

\* C5: while Preprocess runs, visited is the set of the paths on the include
\* stack: a path whose include is done is no longer in it.
C5_VisitedIsIncludeStack ==
    ppStatus = "running" => visited = StackPaths

\* C6: when the preprocessor of an included unit is done, the macros it
\* defined are in the macro table of the including preprocessor; and while it
\* runs, its macro table is the one of the including preprocessor.
C6_IncludeSharesMacros ==
    /\ [][(ppStatus = "running" /\ Len(stack) > 1 /\ Len(stack') = Len(stack) - 1) =>
            DOMAIN Cur.macros \subseteq DOMAIN stack'[Len(stack')].macros]_vars
    /\ [](\A i \in 1..Len(stack) : stack[i].macros = stack[1].macros)


\* C11: NextPPToken never returns a Newline token, to Preprocess or to the
\* include loop of an including preprocessor: the '\n' of the source, of an
\* empty directive, of the arguments of an invocation that span lines and of
\* an included unit are all dropped, and the result of Preprocess has none.
C11_NoNewlineReturned ==
    /\ [][SomethingReturned => ReturnedTok.Type # LF]_vars
    /\ [](\A i \in 1..Len(emitted) : emitted[i].Type # LF)

\* The '\n' inside the arguments of an invocation is at the head of the
\* pending tokens, tokens of the replacement having been returned already.
C11_Witness_NewlineInPending ==
    /\ ppStatus = "running"
    /\ Len(stack) = 1
    /\ Cur.sub # <<>>
    /\ Cur.sub[1].Type = LF
    /\ emitted # <<>>

\* The preprocessor that runs after this step, when the include stack has
\* kept its depth.
CurAfter == stack'[Len(stack)]

\* The call of next that comes reads the source vector, and the token ahead
\* is a '#'.
SrcHashAhead ==
    /\ CanStep
    /\ Cur.sub = <<>>
    /\ Cur.pos < Len(tokens[Cur.path])
    /\ tokens[Cur.path][Cur.pos + 1].Type = "#"

\* That '#' is the first token of the vector or the token before it is a
\* Newline.
HashAtLineHead ==
    \/ Cur.pos = 0
    \/ tokens[Cur.path][Cur.pos].Type = LF

\* The call of next that comes takes a '#' from the pending queue.
SubHashAhead ==
    /\ CanStep
    /\ Cur.sub # <<>>
    /\ Cur.sub[1].Type = "#"

\* This step returns the '#' and leaves macro table and visited alone.
HashReturned ==
    /\ SomethingReturned
    /\ ReturnedTok.Type = "#"
    /\ CurAfter.macros = Cur.macros
    /\ visited' = visited

\* C14: a '#' read from the source vector is dispatched as a directive (it is
\* not returned) exactly when it is the first token of the vector or follows
\* a Newline; a '#' in the middle of a line, or taken from the pending queue,
\* is returned as a token and changes neither the macro table nor visited.
C14_DirectiveOnlyAtLineHead ==
    /\ [][(SrcHashAhead /\ HashAtLineHead) => ~SomethingReturned]_vars
    /\ [][(SrcHashAhead /\ ~HashAtLineHead) =>
            (HashReturned /\ CurAfter.pos = Cur.pos + 1)]_vars
    /\ [][SubHashAhead =>
            (HashReturned /\ CurAfter.pos = Cur.pos
                /\ CurAfter.sub = Tail(Cur.sub))]_vars

\* `#define H ...` at the head of a line has defined H, and the '#' of
\* `z # define F` has been returned with the rest of its line: F is not
\* defined.
C14_Witness_MidLineHash ==
    /\ ppStatus = "eof"
    /\ Len(emitted) = 4
    /\ emitted[2].Type = "#"
    /\ emitted[2].ExpandedFrom = {}
    /\ emitted[4].Val = "F"
    /\ DOMAIN Cur.macros = {"H"}

\* The token t is an identifier that names a function-like macro of the
\* innermost preprocessor and is not painted with that name.
NamesFunctionLike(t) ==
    /\ t.Type = "Ident"
    /\ t.Val \in DOMAIN Cur.macros
    /\ Cur.macros[t.Val].paramsLen >= 0
    /\ t.Val \notin t.ExpandedFrom

\* The source vector of the innermost preprocessor from its cursor on.
SrcAhead == SubSeq(tokens[Cur.path], Cur.pos + 1, Len(tokens[Cur.path]))

\* The call of next that comes reads such an identifier from the source
\* vector, and the token after it is not '('.
FnNameInSrc ==
    /\ CanStep
    /\ Cur.sub = <<>>
    /\ SrcAhead # <<>>
    /\ NamesFunctionLike(SrcAhead[1])
    /\ (Len(SrcAhead) > 1 => SrcAhead[2].Type # "(")

\* The same, the identifier being at the head of the pending queue.
FnNameInSub ==
    /\ CanStep
    /\ Cur.sub # <<>>
    /\ NamesFunctionLike(Cur.sub[1])
    /\ (Len(Cur.sub) > 1 => Cur.sub[2].Type # "(")

\* The token t is one that next returns as it is when it reads it.
Ordinary(t) ==
    /\ t.Type \notin {LF, "#", "EOF"}
    /\ (t.Type = "Ident" => t.Val \notin DOMAIN Cur.macros)

\* The pending queue after this step is the identifier name, painted with its
\* own name, and then rest.
NameThen(name, rest) ==
    /\ Len(CurAfter.sub) = Len(rest) + 1
    /\ CurAfter.sub[1].Type = "Ident"
    /\ CurAfter.sub[1].Val = name
    /\ name \in CurAfter.sub[1].ExpandedFrom
    /\ Tail(CurAfter.sub) = rest

\* The last token Preprocess has received, and the one before it.
LastEmitted == emitted[Len(emitted)]

BeforeLastEmitted == emitted[Len(emitted) - 1]

\* The token t is the identifier name, painted with that name.
PaintedName(t, name) ==
    /\ t.Type = "Ident"
    /\ t.Val = name
    /\ name \in t.ExpandedFrom

\* The source token at the cursor of the innermost preprocessor (the last
\* one read), and the one before it.
SrcAt == tokens[Cur.path][Cur.pos]

SrcBefore == tokens[Cur.path][Cur.pos - 1]

\* Preprocess has just received the name of a function-like macro that the
\* source has without '(' after it, and nothing is pending: the cursor is
\* after the name when the next token is not an ordinary one, and after the
\* ordinary token that follows the name, which has been received too,
\* otherwise.
NameDelivered ==
    /\ ppStatus = "running"
    /\ Len(stack) = 1
    /\ Cur.sub = <<>>
    /\ \/ /\ Cur.pos >= 1
          /\ NamesFunctionLike(SrcAt)
          /\ (SrcAhead # <<>> => ~Ordinary(SrcAhead[1]))
          /\ Len(emitted) >= 1
          /\ PaintedName(LastEmitted, SrcAt.Val)
       \/ /\ Cur.pos >= 2
          /\ NamesFunctionLike(SrcBefore)
          /\ Ordinary(SrcAt) /\ SrcAt.Type # "("
          /\ Len(emitted) >= 2
          /\ LastEmitted = SrcAt
          /\ PaintedName(BeforeLastEmitted, SrcBefore.Val)

\* C15: an identifier that names a function-like macro and is not followed
\* by '(' is not expanded.  The call of next that meets it, in the source or
\* in the pending queue, fails not and returns nothing, reads no token after
\* the identifier, and puts the identifier, painted, in front of the pending
\* queue; the painted identifier is returned by the next call as it is; so
\* Preprocess receives the identifier once and, when the token after it is
\* an ordinary one, that token next.
C15_FunctionLikeNameWithoutParen ==
    /\ [][FnNameInSrc =>
            /\ ppStatus' = "running"
            /\ ~SomethingReturned
            /\ Len(stack') = Len(stack)
            /\ CurAfter.pos = Cur.pos + 1
            /\ NameThen(SrcAhead[1].Val, <<>>)]_vars
    /\ [][FnNameInSub =>
            /\ ppStatus' = "running"
            /\ ~SomethingReturned
            /\ Len(stack') = Len(stack)
            /\ CurAfter.pos = Cur.pos
            /\ NameThen(Cur.sub[1].Val, Tail(Cur.sub))]_vars
    /\ [][(HeadIsPainted /\ Cur.macros[Cur.sub[1].Val].paramsLen >= 0) =>
            /\ SomethingReturned
            /\ ReturnedTok = Cur.sub[1]
            /\ CurAfter.sub = Tail(Cur.sub)
            /\ CurAfter.pos = Cur.pos]_vars
    /\ (FnNameInSrc /\ Len(stack) = 1) ~> NameDelivered

\* Preprocess has returned F and z for the line `F z`, F being defined with
\* two parameters.
C15_Witness_NameThenNext ==
    /\ ppStatus = "eof"
    /\ "F" \in DOMAIN Cur.macros
    /\ Cur.macros["F"].paramsLen = 2
    /\ Len(emitted) = 2
    /\ emitted[1].Val = "F" /\ "F" \in emitted[1].ExpandedFrom
    /\ emitted[2].Val = "z" /\ emitted[2].ExpandedFrom = {}

\* The call of next that comes is at `# define NAME` at the head of a line.
DefineAhead ==
    /\ SrcHashAhead
    /\ HashAtLineHead
    /\ Len(SrcAhead) >= 4
    /\ SrcAhead[2].Type = "Ident" /\ SrcAhead[2].Val = "define"
    /\ SrcAhead[3].Type = "Ident"
    /\ \E j \in 4..Len(SrcAhead) : SrcAhead[j].Type = LF

DefName == SrcAhead[3].Val

\* The index in SrcAhead of the first token of type after the name.
FirstAfterName(type) ==
    CHOOSE j \in 4..Len(SrcAhead) :
        /\ SrcAhead[j].Type = type
        /\ \A i \in 4..(j - 1) : SrcAhead[i].Type # type

\* The tokens of the line from index i on, the Newline excluded.
RestOfLine(i) == SubSeq(SrcAhead, i, FirstAfterName(LF) - 1)

\* The step has defined the macro.
DefineDone ==
    /\ ppStatus' = "running"
    /\ Len(stack') = Len(stack)
    /\ DefName \in DOMAIN CurAfter.macros

Defined == CurAfter.macros[DefName]

\* Type and spelling of the tokens ts.
Spelling(ts_) == [i \in 1..Len(ts_) |-> <<ts_[i].Type, ts_[i].Val>>]

\* Type and spelling of the tokens a replacement list was made from: a Param
\* token stands for the parameter's identifier, after a '#' with ParamHash.
RECURSIVE Unrewritten(_, _)
Unrewritten(ts_, params) ==
    IF ts_ = <<>> THEN <<>>
    ELSE (IF ts_[1].Type # "Param" THEN <<<<ts_[1].Type, ts_[1].Val>>>>
          ELSE IF ts_[1].ParamHash
          THEN <<<<"#", "">>, <<"Ident", params[ts_[1].ParamIndex + 1]>>>>
          ELSE <<<<"Ident", params[ts_[1].ParamIndex + 1]>>>>)
         \o Unrewritten(Tail(ts_), params)

\* C16: a `#define NAME` at the head of a line that succeeds defines NAME as
\* function-like (paramsLen >= 0) exactly when the token after NAME is a '('
\* that is Adjacent.  Otherwise paramsLen is -1 and the replacement list is
\* the tokens after NAME up to the Newline, a '(' after a space being the
\* first of them.  `NAME()` gives paramsLen 0.  The replacement list of a
\* function-like macro is made of the tokens after the ')' up to the Newline,
\* and the cursor is left after that Newline.
C16_DefineShape ==
    [][(DefineAhead /\ DefineDone) =>
        /\ (Defined.paramsLen >= 0) <=>
                (SrcAhead[4].Type = "(" /\ SrcAhead[4].Adjacent)
        /\ Defined.paramsLen < 0 =>
                /\ Defined.paramsLen = -1
                /\ Defined.tokens = RestOfLine(4)
        /\ (SrcAhead[4].Type = "(" /\ ~SrcAhead[4].Adjacent) =>
                /\ Defined.paramsLen = -1
                /\ Defined.tokens # <<>>
                /\ Defined.tokens[1] = SrcAhead[4]
        /\ (SrcAhead[4].Type = "(" /\ SrcAhead[4].Adjacent /\ SrcAhead[5].Type = ")") =>
                /\ Defined.paramsLen = 0
                /\ Defined.tokens = RestOfLine(6)
        /\ Defined.paramsLen >= 0 =>
                Unrewritten(Defined.tokens, Defined.params)
                    = Spelling(RestOfLine(FirstAfterName(")") + 1))
        /\ CurAfter.pos = Cur.pos + FirstAfterName(LF)]_vars

\* `#define G (x) x` has defined G as object-like with the replacement list
\* `( x ) x`.
C16_Witness_ParenAfterSpace ==
    /\ ppStatus = "running"
    /\ "G" \in DOMAIN Cur.macros
    /\ Cur.macros["G"].paramsLen = -1
    /\ Len(Cur.macros["G"].tokens) = 4
    /\ Cur.macros["G"].tokens[1].Type = "("

\* The macro m is well formed: its Param tokens index its parameters, it has
\* none when it is object-like, and none of its identifiers is spelled like
\* one of its parameters.
WellFormedMacro(m) ==
    \A i \in 1..Len(m.tokens) :
        /\ m.tokens[i].Type = "Param" =>
              /\ m.paramsLen >= 0
              /\ m.tokens[i].ParamIndex >= 0
              /\ m.tokens[i].ParamIndex < m.paramsLen
        /\ (m.paramsLen >= 0 /\ m.tokens[i].Type = "Ident") =>
              \A j \in 1..Len(m.params) : m.params[j] # m.tokens[i].Val

\* C17: every macro in the table of every preprocessor is well formed: each
\* Param token has its index in [0, paramsLen), an object-like macro has no
\* Param token, and no identifier of the replacement list of a function-like
\* macro is spelled like one of its parameters.
C17_MacrosWellFormed ==
    \A f \in 1..Len(stack) : \A n \in DOMAIN stack[f].macros :
        /\ WellFormedMacro(stack[f].macros[n])
        /\ stack[f].macros[n].paramsLen >= 0 =>
              stack[f].macros[n].paramsLen = Len(stack[f].macros[n].params)

\* F(x,y) is defined with the replacement list `#y x z`: a Param of index 1
\* with ParamHash, a Param of index 0, and the identifier z.
C17_Witness_TwoParams ==
    /\ ppStatus = "running"
    /\ "F" \in DOMAIN Cur.macros
    /\ Cur.macros["F"].paramsLen = 2
    /\ Len(Cur.macros["F"].tokens) = 3
    /\ Cur.macros["F"].tokens[1].Type = "Param"
    /\ Cur.macros["F"].tokens[1].ParamIndex = 1
    /\ Cur.macros["F"].tokens[1].ParamHash
    /\ Cur.macros["F"].tokens[2].Type = "Param"
    /\ Cur.macros["F"].tokens[2].ParamIndex = 0
    /\ ~Cur.macros["F"].tokens[2].ParamHash
    /\ Cur.macros["F"].tokens[3].Val = "z"

\* The tokens body have a '#' that is not immediately followed by an
\* identifier of names.
BadHash(body, names) ==
    \E i \in 1..Len(body) :
        /\ body[i].Type = "#"
        /\ \/ i = Len(body)
           \/ body[i + 1].Type # "Ident"
           \/ body[i + 1].Val \notin names

\* The line ahead is `# define NAME(` with a parameter list: identifiers with
\* commas between, or nothing, and ')'.
FunctionLikeAhead ==
    /\ DefineAhead
    /\ SrcAhead[4].Type = "(" /\ SrcAhead[4].Adjacent
    /\ \E c \in 5..Len(SrcAhead) : SrcAhead[c].Type = ")"
    /\ FirstAfterName(")") < FirstAfterName(LF)
    /\ \A i \in 5..(FirstAfterName(")") - 1) :
          SrcAhead[i].Type = (IF i % 2 = 1 THEN "Ident" ELSE ",")
    /\ FirstAfterName(")") % 2 = (IF FirstAfterName(")") = 5 THEN 1 ELSE 0)

\* The names of its parameters.
ParamsAhead ==
    {SrcAhead[i].Val : i \in {j \in 5..(FirstAfterName(")") - 1) : j % 2 = 1}}

\* The step fails with the error of a '#' without parameter and leaves the
\* macro table as it was.
HashErrorNothingInstalled ==
    /\ ppStatus' = "error"
    /\ ppErr' = ErrHashParam
    /\ Len(stack') = Len(stack)
    /\ CurAfter.macros = Cur.macros

\* C18 (as the code has it): a `#define` of a function-like macro whose
\* replacement list has a '#' that is not immediately followed by an
\* identifier naming one of the parameters fails with the definition-time
\* error and installs nothing: the macro table is as before, an earlier
\* definition of the name included.
C18_FunctionLikeHashError ==
    [][(/\ FunctionLikeAhead
        /\ BadHash(RestOfLine(FirstAfterName(")") + 1), ParamsAhead))
       => HashErrorNothingInstalled]_vars

\* C18 (as stated): the same of every `#define`, the object-like ones,
\* which have no parameter, included.
C18_AnyDefineHashError ==
    [][(/\ DefineAhead
        /\ IF FunctionLikeAhead
           THEN BadHash(RestOfLine(FirstAfterName(")") + 1), ParamsAhead)
           ELSE /\ ~(SrcAhead[4].Type = "(" /\ SrcAhead[4].Adjacent)
                /\ BadHash(RestOfLine(4), {}))
       => HashErrorNothingInstalled]_vars

\* `#define F(x) ...` with a '#' that has no parameter after it has failed,
\* and F is still the macro of two parameters defined before.
C18_Witness_EarlierKept ==
    /\ ppStatus = "error"
    /\ ppErr = ErrHashParam
    /\ DOMAIN Cur.macros = {"F"}
    /\ Cur.macros["F"].paramsLen = 2

\* The call of next that comes is at `# undef NAME` at the head of a line.
UndefAhead ==
    /\ SrcHashAhead
    /\ HashAtLineHead
    /\ Len(SrcAhead) >= 3
    /\ SrcAhead[2].Type = "Ident" /\ SrcAhead[2].Val = "undef"
    /\ SrcAhead[3].Type = "Ident"

\* C19: `#undef NAME` followed by a Newline removes NAME from the macro table
\* and leaves every other entry as it was, returns nothing and fails not;
\* when NAME is not defined the table is unchanged.  When the token after
\* NAME is not a Newline the directive fails with an error.
C19_UndefRemovesOnlyName ==
    /\ [][(UndefAhead /\ Len(SrcAhead) >= 4 /\ SrcAhead[4].Type = LF) =>
            /\ ppStatus' = "running"
            /\ ppErr' = ""
            /\ ~SomethingReturned
            /\ Len(stack') = Len(stack)
            /\ DOMAIN CurAfter.macros = DOMAIN Cur.macros \ {SrcAhead[3].Val}
            /\ \A n \in DOMAIN CurAfter.macros : CurAfter.macros[n] = Cur.macros[n]
            /\ (SrcAhead[3].Val \notin DOMAIN Cur.macros => CurAfter.macros = Cur.macros)
            /\ CurAfter.pos = Cur.pos + 4]_vars
    /\ [][(UndefAhead /\ (Len(SrcAhead) < 4 \/ SrcAhead[4].Type # LF)) =>
            /\ ppStatus' = "error"
            /\ ppErr' # ""]_vars

\* G and F were defined and the unit ends with `#undef F`: G alone is left.
C19_Witness_OtherKept ==
    /\ ppStatus = "eof"
    /\ Len(tokens["a"]) > 4
    /\ tokens["a"][Len(tokens["a"]) - 2].Val = "undef"
    /\ tokens["a"][Len(tokens["a"]) - 1].Val = "F"
    /\ DOMAIN Cur.macros = {"G"}

\* The call of next that comes is at a '#' at the head of a line that is
\* followed by an identifier.
NamedDirectiveAhead ==
    /\ SrcHashAhead
    /\ HashAtLineHead
    /\ Len(SrcAhead) >= 2
    /\ SrcAhead[2].Type = "Ident"

\* The step fails with the error e, returns no token and leaves the macro
\* table as it was.
FailsWith(e) ==
    /\ ppStatus' = "error"
    /\ ppErr' = e
    /\ ~SomethingReturned
    /\ emitted' = emitted
    /\ Len(stack') = Len(stack)
    /\ CurAfter.macros = Cur.macros

\* C20: at the head of a line, `#` and one of if, ifdef, ifndef, else, elif,
\* endif, line, pragma fails with the error that this directive is not
\* implemented, no token of the line being returned and the macro table
\* unchanged; `#` and any other name that is not a directive fails with
\* "invalid preprocessing directive"; and a `#` alone on its line does
\* nothing.
C20_DirectiveErrors ==
    /\ [][(NamedDirectiveAhead /\ SrcAhead[2].Val \in NotImplementedNames) =>
            FailsWith("preprocess: #" \o SrcAhead[2].Val \o " is not implemented")]_vars
    /\ [][(/\ NamedDirectiveAhead
           /\ SrcAhead[2].Val \notin
                NotImplementedNames \cup {"define", "undef", "include", "error"}) =>
            FailsWith("preprocess: invalid preprocessing directive " \o SrcAhead[2].Val)]_vars
    /\ [][(/\ SrcHashAhead /\ HashAtLineHead
           /\ Len(SrcAhead) >= 2 /\ SrcAhead[2].Type = LF) =>
            /\ ppStatus' = "running"
            /\ ~SomethingReturned
            /\ Len(stack') = Len(stack)
            /\ CurAfter.macros = Cur.macros
            /\ visited' = visited
            /\ CurAfter.pos = Cur.pos + 2]_vars

\* The call of next that comes takes from the pending queue an identifier
\* that names a macro and is not painted with its name: it is expanded.
SubExpandAhead ==
    /\ CanStep
    /\ Cur.sub # <<>>
    /\ Cur.sub[1].Type = "Ident"
    /\ Cur.sub[1].Val \in DOMAIN Cur.macros
    /\ Cur.sub[1].Val \notin Cur.sub[1].ExpandedFrom

\* The pending queue after its head.
SubRest == Tail(Cur.sub)

\* The number of tokens of type among the first k of SubRest.
CountIn(type, k) == Cardinality({i \in 1..k : SubRest[i].Type = type})

\* The indexes of the ')' of SubRest that close the '(' at its head.
ClosesArgs ==
    {i \in 2..Len(SubRest) :
        /\ SubRest[i].Type = ")"
        /\ CountIn("(", i - 1) = CountIn(")", i - 1) + 1}

\* The number of tokens of SubRest that the invocation takes: the argument
\* list up to the ')' that closes it, when the macro is function-like and a
\* '(' is next; none otherwise.
ArgsRead ==
    IF /\ Cur.macros[Cur.sub[1].Val].paramsLen >= 0
       /\ SubRest # <<>>
       /\ SubRest[1].Type = "("
       /\ ClosesArgs # {}
    THEN CHOOSE i \in ClosesArgs : \A j \in ClosesArgs : i <= j
    ELSE 0

\* C23: a call of next with a non-empty pending queue leaves the cursor of
\* the source where it was.  When the call expands the identifier at the
\* head of the queue and fails not, it returns nothing, and the queue
\* afterwards is the result of apply, every token of which is painted with
\* the name of the macro, followed by the tokens of the old queue after those
\* the invocation took, in their order.
C23_SubExpansionReadsSub ==
    /\ [][(CanStep /\ Cur.sub # <<>>) =>
            /\ Len(stack') = Len(stack)
            /\ CurAfter.pos = Cur.pos]_vars
    /\ [][(SubExpandAhead /\ ppStatus' = "running") =>
            /\ ~SomethingReturned
            /\ Len(CurAfter.sub) >= Len(SubRest) - ArgsRead
            /\ SubSeq(CurAfter.sub,
                      Len(CurAfter.sub) - (Len(SubRest) - ArgsRead) + 1,
                      Len(CurAfter.sub))
                 = SubSeq(SubRest, ArgsRead + 1, Len(SubRest))
            /\ \A i \in 1..(Len(CurAfter.sub) - (Len(SubRest) - ArgsRead)) :
                  Cur.sub[1].Val \in CurAfter.sub[i].ExpandedFrom]_vars

\* The invocation F(A,z) of the replacement list of K has been expanded in
\* the pending queue: its three tokens, painted F, are in front of the z that
\* followed the invocation, which is painted K only.
C23_Witness_InvocationInSub ==
    /\ ppStatus = "running"
    /\ Len(stack) = 1
    /\ Len(Cur.sub) = 4
    /\ Cur.sub[1].Type = "StringLiteral"
    /\ "F" \in Cur.sub[3].ExpandedFrom
    /\ Cur.sub[4].Val = "z"
    /\ Cur.sub[4].ExpandedFrom = {"K"}

\* The call of next that comes is at `# error` at the head of a line.
ErrorAhead ==
    /\ SrcHashAhead
    /\ HashAtLineHead
    /\ Len(SrcAhead) >= 3
    /\ SrcAhead[2].Type = "Ident" /\ SrcAhead[2].Val = "error"
    /\ \E j \in 3..Len(SrcAhead) : SrcAhead[j].Type = LF

\* The index in SrcAhead of the first Newline after the directive name.
NewlineOfDirective ==
    CHOOSE j \in 3..Len(SrcAhead) :
        /\ SrcAhead[j].Type = LF
        /\ \A i \in 3..(j - 1) : SrcAhead[i].Type # LF

\* The `#define` ahead has a name and then no parameter list or a well
\* formed one.
DefineHeadAhead ==
    /\ DefineAhead
    /\ (SrcAhead[4].Type = "(" /\ SrcAhead[4].Adjacent) => FunctionLikeAhead

\* The step leaves the cursor just after the first Newline after the
\* directive name.
LineConsumed ==
    /\ Len(stack') = Len(stack)
    /\ CurAfter.pos = Cur.pos + NewlineOfDirective
    /\ tokens[Cur.path][CurAfter.pos].Type = LF

\* C25 (as the code has it): in a source vector that ends with a Newline, a
\* `#define` with a name and a well formed parameter list (or none) and a
\* `#error` are done in one call of next, which leaves the cursor just after
\* the first Newline after the directive name, so that the token read next
\* is at the head of a line; the replacement list that is stored and the
\* message of #error are made of the tokens before that Newline and have
\* no Newline and no EOF token.
C25_LineDirectiveConsumesLine ==
    /\ [][DefineHeadAhead =>
            /\ LineConsumed
            /\ ppErr' # "preprocess: no end of line"
            /\ DefineDone =>
                  \A i \in 1..Len(Defined.tokens) :
                      Defined.tokens[i].Type \notin {LF, "EOF"}]_vars
    /\ [][ErrorAhead =>
            /\ LineConsumed
            /\ ppStatus' = "error"
            /\ ppErr' = "preprocess: #error"
                          \o errorMsg(SubSeq(SrcAhead, 3, NewlineOfDirective - 1))]_vars

\* C25 (as stated): the same of every `#define` that has a name, whatever its
\* parameter list.
C25_AnyDefineConsumesLine ==
    /\ [][DefineAhead => LineConsumed]_vars
    /\ [][ErrorAhead => LineConsumed]_vars

\* A macro has been defined and the `#error z A` on the line after it has
\* failed with its message, the cursor being after the Newline of its line.
C25_Witness_ErrorAfterDefine ==
    /\ ppStatus = "error"
    /\ ppErr = "preprocess: #error z A"
    /\ DOMAIN Cur.macros # {}
    /\ Cur.pos = Len(tokens[Cur.path])
    /\ tokens[Cur.path][Cur.pos].Type = LF

=============================================================================
